---------------------------- MODULE Spec2Model ----------------------------
(***************************************************************************)
(* CineFlare investment settlement engine: the ClaimSBT registry, the      *)
(* RewardNFT / StakeManager pairing, the ProjectVault (payment intake,     *)
(* milestones, revenue distribution) and the OracleAdapter.                *)
(*                                                                         *)
(* Every externally callable function is one action.  A call that reverts  *)
(* commits nothing: the action then changes only `last`, the observation   *)
(* of the call (its name, arguments, revert reason and return value).      *)
(***************************************************************************)
EXTENDS Integers, Sequences, FiniteSets, TLC

VARIABLES
    owner,               \* Ownable.owner() of ClaimSBT, RewardNFT, OracleAdapter
    claims,              \* ClaimSBT: token id i is claims[i+1] (with its ERC721 owner)
    rewards,             \* RewardNFT: token id i is rewards[i+1] (with its ERC721 owner)
    claimToReward,       \* RewardNFT.claimToReward
    stakes,              \* StakeManager.stakes
    userStakes,          \* StakeManager.userStakes
    xrplPaymentProofs,   \* OracleAdapter.xrplPaymentProofs
    authorizedVerifiers, \* OracleAdapter.authorizedVerifiers
    milestoneAttestations, \* OracleAdapter.milestoneAttestations
    project,             \* ProjectVault.project, one per vault
    userContributions,   \* ProjectVault.userContributions, per vault
    processedPayments,   \* ProjectVault.processedPayments, per vault
    milestones,          \* ProjectVault.milestones, per vault
    revenueEntries,      \* ProjectVault.revenueEntries, per vault
    vaultBalance,        \* flareToken.balanceOf(vault)
    now,                 \* block.timestamp
    last,                \* the last call: [op, args, err, ret]
    assetBalance,        \* asset.balanceOf(account), the ERC20 given to RevenueSplitter
    userDistributions,   \* RevenueSplitter.userDistributions
    projectDistributions, \* RevenueSplitter.projectDistributions
    isMonitoring,        \* RelayerService.isMonitoring
    monitoredAddresses,  \* RelayerService.monitoredAddresses (the keys; configs are fixed)
    subscriptions,       \* accounts the XRPL server notifies the client about
    listeners,           \* client.on('transaction') listeners, per monitored address
    handlers,            \* handlePayment invocations in flight: [tx, pc]
    userSessionKeys,     \* SessionKeyManager.userSessionKeys
    isSessionKeyActive,  \* SessionKeyManager.isSessionKeyActive, as a set of <<user, key>>
    userTransactions,    \* SessionKeyManager.userTransactions: the executed <<user, nonce>>
    userNonces,          \* SessionKeyManager.userNonces
    sponsoredGasUsed,    \* SessionKeyManager.sponsoredGasUsed
    mintRequests,        \* FAssetManager.mintRequests
    pendingMintRequests, \* FAssetManager.pendingMintRequests
    fxrpBalance,         \* IFAsset(fxrpAddress).balanceOf
    badges,              \* XLS20Badge: badge id i is badges[i+1] (badgeData and ERC721 owner)
    rewardToBadge,       \* XLS20Badge.rewardToBadge
    xrplTokenToBadge     \* XLS20Badge.xrplTokenToBadge, keyed by the number in "XLS20_<n>"

vars == <<owner, claims, rewards, claimToReward, stakes, userStakes,
          xrplPaymentProofs, authorizedVerifiers, milestoneAttestations,
          project, userContributions, processedPayments, milestones,
          revenueEntries, vaultBalance, now, last,
          assetBalance, userDistributions, projectDistributions,
          isMonitoring, monitoredAddresses, subscriptions, listeners, handlers,
          userSessionKeys, isSessionKeyActive, userTransactions, userNonces,
          sponsoredGasUsed, mintRequests, pendingMintRequests, fxrpBalance,
          badges, rewardToBadge, xrplTokenToBadge>>

registryVars == <<owner, claims, rewards, claimToReward, stakes, userStakes>>
splitterVars == <<assetBalance, userDistributions, projectDistributions>>
relayerVars == <<isMonitoring, monitoredAddresses, subscriptions, listeners, handlers>>
sessionVars == <<userSessionKeys, isSessionKeyActive, userTransactions, userNonces, sponsoredGasUsed>>
fassetVars == <<mintRequests, pendingMintRequests, fxrpBalance>>
badgeVars == <<badges, rewardToBadge, xrplTokenToBadge>>
contractVars == <<splitterVars, sessionVars, fassetVars, badgeVars>>
peripheryVars == <<contractVars, relayerVars>>
oracleVars == <<xrplPaymentProofs, authorizedVerifiers, milestoneAttestations>>
vaultVars == <<project, userContributions, processedPayments, milestones,
               revenueEntries, vaultBalance>>

----------------------------------------------------------------------------
(* Bounds of the model. *)

MaxClaims == 3       \* claim tokens ever minted
MaxRewards == 2      \* reward tokens ever minted
MaxEntries == 2      \* pending revenue entries of a vault
MaxTime == 2         \* block.timestamp runs over 1..MaxTime
MaxMilestones == 2   \* milestones of a vault

----------------------------------------------------------------------------
(* Identities. *)

ZeroAddress == "0x0"
Admin == "admin"                 \* the externally owned account that deploys and administers
Factory == "factory"             \* the ProjectFactory contract
StakeMgr == "stakeManager"       \* the StakeManager contract
Users == {"alice", "bob"}

Vaults == {1, 2}                 \* two project vaults sharing the core contracts
VaultAddress(v) == IF v = 1 THEN "vault1" ELSE "vault2"
VaultOwner(v) == Admin

Range(f) == {f[i] : i \in DOMAIN f}

Min(a, b) == IF a < b THEN a ELSE b

(* keccak256(abi.encodePacked(x)): a collision-free digest of its argument. *)
Keccak256(x) == <<"keccak256", x>>

Contracts == {"ClaimSBT", "RewardNFT", "OracleAdapter"}
TxHashes == {"tx1", "tx2", "tx3"}

(* The observation of a call. *)
Call(op, args, err, ret) == [op |-> op, args |-> args, err |-> err, ret |-> ret]

(* Ownable.onlyOwner *)
OnlyOwnerRevert(c, caller) ==
    IF caller # owner[c] THEN "Ownable: caller is not the owner" ELSE ""

----------------------------------------------------------------------------
(* OracleAdapter: XRPL payment proofs. *)

NoProof ==
    [txHash |-> "", sender |-> ZeroAddress, recipient |-> ZeroAddress, amount |-> 0,
     timestamp |-> 0, blockNumber |-> 0, verified |-> FALSE]

isXRPLPaymentVerified(txHash) == xrplPaymentProofs[txHash].verified

(* verifyXRPLPayment without its already-verified check. *)
VerifyXRPLPaymentRevert_Overwrite(caller, txHash) ==
    OnlyOwnerRevert("OracleAdapter", caller)

VerifyXRPLPaymentRevert(caller, txHash) ==
    IF OnlyOwnerRevert("OracleAdapter", caller) # ""
    THEN OnlyOwnerRevert("OracleAdapter", caller)
    ELSE IF xrplPaymentProofs[txHash].verified THEN "Payment already verified"
    ELSE ""

VerifyXRPLPaymentTx(caller, txHash, sender, recipient, amount, timestamp, blockNumber) ==
    LET e == VerifyXRPLPaymentRevert(caller, txHash)
        args == <<caller, txHash, sender, recipient, amount, timestamp, blockNumber>>
    IN  IF e # ""
        THEN /\ last' = Call("verifyXRPLPayment", args, e, FALSE)
             /\ UNCHANGED <<registryVars, oracleVars, vaultVars, now, contractVars>>
        ELSE /\ xrplPaymentProofs' =
                    [xrplPaymentProofs EXCEPT ![txHash] =
                        [txHash |-> txHash, sender |-> sender, recipient |-> recipient,
                         amount |-> amount, timestamp |-> timestamp,
                         blockNumber |-> blockNumber, verified |-> TRUE]]
             /\ last' = Call("verifyXRPLPayment", args, "", TRUE)
             /\ UNCHANGED <<registryVars, authorizedVerifiers, milestoneAttestations,
                            vaultVars, now, contractVars>>

(* verifyXRPLPayment sent by an account other than the relayer's handlers. *)
VerifyXRPLPayment(caller, txHash, sender, recipient, amount, timestamp, blockNumber) ==
    /\ VerifyXRPLPaymentTx(caller, txHash, sender, recipient, amount, timestamp, blockNumber)
    /\ UNCHANGED relayerVars

(* batchVerifyXRPLPayments: onlyOwner, then the five array-length requires. *)
BatchVerifyRevert(caller, txHashes, senders, recipients, amounts, timestamps, blockNumbers) ==
    IF OnlyOwnerRevert("OracleAdapter", caller) # ""
    THEN OnlyOwnerRevert("OracleAdapter", caller)
    ELSE IF \/ Len(txHashes) # Len(senders)
            \/ Len(txHashes) # Len(recipients)
            \/ Len(txHashes) # Len(amounts)
            \/ Len(txHashes) # Len(timestamps)
            \/ Len(txHashes) # Len(blockNumbers)
    THEN "Array length mismatch"
    ELSE ""

(* The loop of batchVerifyXRPLPayments with the already-verified test removed. *)
BatchProofs_Overwrite(txHashes, senders, recipients, amounts, timestamps, blockNumbers) ==
    LET F[i \in 0..Len(txHashes)] ==
            IF i = 0 THEN xrplPaymentProofs
            ELSE [F[i - 1] EXCEPT ![txHashes[i]] =
                     [txHash |-> txHashes[i], sender |-> senders[i],
                      recipient |-> recipients[i], amount |-> amounts[i],
                      timestamp |-> timestamps[i], blockNumber |-> blockNumbers[i],
                      verified |-> TRUE]]
    IN  F[Len(txHashes)]

(* The loop of batchVerifyXRPLPayments: xrplPaymentProofs after entries 1..n, *)
(* each entry tested against the proofs the earlier entries left.             *)
BatchProofs(txHashes, senders, recipients, amounts, timestamps, blockNumbers) ==
    LET F[i \in 0..Len(txHashes)] ==
            IF i = 0 THEN xrplPaymentProofs
            ELSE IF ~F[i - 1][txHashes[i]].verified
                 THEN [F[i - 1] EXCEPT ![txHashes[i]] =
                          [txHash |-> txHashes[i], sender |-> senders[i],
                           recipient |-> recipients[i], amount |-> amounts[i],
                           timestamp |-> timestamps[i], blockNumber |-> blockNumbers[i],
                           verified |-> TRUE]]
                 ELSE F[i - 1]
    IN  F[Len(txHashes)]

(* The XRPLPaymentVerified events of a batch: the indices whose entry was stored. *)
BatchStored(txHashes) ==
    {i \in 1..Len(txHashes) :
        /\ ~xrplPaymentProofs[txHashes[i]].verified
        /\ \A j \in 1..(i - 1) : txHashes[j] # txHashes[i]}

BatchVerifyXRPLPayments(caller, txHashes, senders, recipients, amounts, timestamps, blockNumbers) ==
    LET e == BatchVerifyRevert(caller, txHashes, senders, recipients, amounts,
                               timestamps, blockNumbers)
        args == <<caller, txHashes, senders, recipients, amounts, timestamps,
                  blockNumbers>>
    IN  IF e # ""
        THEN /\ last' = Call("batchVerifyXRPLPayments", args, e, {})
             /\ UNCHANGED <<registryVars, oracleVars, vaultVars, now, peripheryVars>>
        ELSE /\ xrplPaymentProofs' = BatchProofs(txHashes, senders, recipients, amounts,
                                                 timestamps, blockNumbers)
             /\ last' = Call("batchVerifyXRPLPayments", args, "", BatchStored(txHashes))
             /\ UNCHANGED <<registryVars, authorizedVerifiers, milestoneAttestations,
                            vaultVars, now, peripheryVars>>

----------------------------------------------------------------------------
(* ClaimSBT: the claim registry. *)

ClaimIds == 0..(Len(claims) - 1)
ClaimExists(tokenId) == tokenId \in ClaimIds
ClaimData(tokenId) == claims[tokenId + 1]
ClaimOwnerOf(tokenId) == claims[tokenId + 1].owner

(* getProjectClaims: the ids pushed to projectClaims[projectId], in mint order. *)
getProjectClaims(projectId) ==
    LET F[i \in 0..Len(claims)] ==
            IF i >= Len(claims) THEN <<>>
            ELSE (IF ClaimData(i).projectId = projectId THEN <<i>> ELSE <<>>) \o F[i + 1]
    IN  F[0]

(* getUserClaims: the ids pushed to userClaims[user], in mint order. *)
getUserClaims(user) ==
    LET F[i \in 0..Len(claims)] ==
            IF i >= Len(claims) THEN <<>>
            ELSE (IF ClaimData(i).owner = user THEN <<i>> ELSE <<>>) \o F[i + 1]
    IN  F[0]

(* mintClaim(to, projectId, basisPoints, joinPrice, xrplSourceTx): callable by *)
(* the payment intake of a vault only; rejects a zero share.                   *)
MintClaimRevert(caller, basisPoints) ==
    IF caller \notin {VaultAddress(v) : v \in Vaults} THEN "Unauthorized minter"
    ELSE IF basisPoints = 0 THEN "Invalid share"
    ELSE ""

MintedClaim(to, projectId, basisPoints, joinPrice, xrplSourceTx) ==
    [owner |-> to, projectId |-> projectId, basisPoints |-> basisPoints,
     status |-> "Active", joinPrice |-> joinPrice, xrplSourceTx |-> xrplSourceTx,
     timestamp |-> now]

(* Ownable.transferOwnership *)
TransferOwnership(c, caller, newOwner) ==
    LET e == IF OnlyOwnerRevert(c, caller) # "" THEN OnlyOwnerRevert(c, caller)
             ELSE IF newOwner = ZeroAddress
                  THEN "Ownable: new owner is the zero address"
             ELSE ""
    IN  IF e # ""
        THEN /\ last' = Call("transferOwnership", <<c, caller, newOwner>>, e, <<>>)
             /\ UNCHANGED <<registryVars, oracleVars, vaultVars, now, peripheryVars>>
        ELSE /\ owner' = [owner EXCEPT ![c] = newOwner]
             /\ last' = Call("transferOwnership", <<c, caller, newOwner>>, "", <<>>)
             /\ UNCHANGED <<claims, rewards, claimToReward, stakes, userStakes,
                            oracleVars, vaultVars, now, peripheryVars>>

(* ClaimSBT.mintOrTopUp *)
FirstActiveOf(ids) ==
    LET F[i \in 1..(Len(ids) + 1)] ==
            IF i > Len(ids) THEN 0
            ELSE IF ClaimData(ids[i]).status = "Active" THEN ids[i]
            ELSE F[i + 1]
    IN  F[1]

TopUpBasisPoints(amount) == (amount * 10000) \div 1000000

MintOrTopUpRevert(caller, amount) ==
    IF OnlyOwnerRevert("ClaimSBT", caller) # "" THEN OnlyOwnerRevert("ClaimSBT", caller)
    ELSE IF ~(amount > 0) THEN "Invalid amount"
    ELSE ""

MintOrTopUp(caller, to, amount) ==
    LET e == MintOrTopUpRevert(caller, amount)
        existingTokenId == FirstActiveOf(getUserClaims(to))
    IN  IF e # ""
        THEN /\ last' = Call("mintOrTopUp", <<caller, to, amount>>, e, <<>>)
             /\ UNCHANGED <<registryVars, oracleVars, vaultVars, now, peripheryVars>>
        ELSE IF existingTokenId > 0
        THEN /\ claims' = [claims EXCEPT ![existingTokenId + 1].basisPoints =
                                @ + TopUpBasisPoints(amount)]
             /\ last' = Call("mintOrTopUp", <<caller, to, amount>>, "", existingTokenId)
             /\ UNCHANGED <<owner, rewards, claimToReward, stakes, userStakes,
                            oracleVars, vaultVars, now, peripheryVars>>
        ELSE /\ Len(claims) < MaxClaims
             /\ claims' = Append(claims,
                    [owner |-> to, projectId |-> 0,
                     basisPoints |-> TopUpBasisPoints(amount), status |-> "Active",
                     joinPrice |-> 0, xrplSourceTx |-> "", timestamp |-> now])
             /\ last' = Call("mintOrTopUp", <<caller, to, amount>>, "", Len(claims))
             /\ UNCHANGED <<owner, rewards, claimToReward, stakes, userStakes,
                            oracleVars, vaultVars, now, peripheryVars>>

(* ClaimSBT.pause / unpause *)
StatusRevert(caller, tokenId) ==
    IF OnlyOwnerRevert("ClaimSBT", caller) # "" THEN OnlyOwnerRevert("ClaimSBT", caller)
    ELSE IF ~ClaimExists(tokenId) THEN "Token does not exist"
    ELSE ""

Pause(caller, tokenId) ==
    LET e == StatusRevert(caller, tokenId)
    IN  IF e # ""
        THEN /\ last' = Call("pause", <<caller, tokenId>>, e, <<>>)
             /\ UNCHANGED <<registryVars, oracleVars, vaultVars, now, peripheryVars>>
        ELSE /\ claims' = [claims EXCEPT ![tokenId + 1].status = "Staked"]
             /\ last' = Call("pause", <<caller, tokenId>>, "", <<>>)
             /\ UNCHANGED <<owner, rewards, claimToReward, stakes, userStakes,
                            oracleVars, vaultVars, now, peripheryVars>>

Unpause(caller, tokenId) ==
    LET e == StatusRevert(caller, tokenId)
    IN  IF e # ""
        THEN /\ last' = Call("unpause", <<caller, tokenId>>, e, <<>>)
             /\ UNCHANGED <<registryVars, oracleVars, vaultVars, now, peripheryVars>>
        ELSE /\ claims' = [claims EXCEPT ![tokenId + 1].status = "Active"]
             /\ last' = Call("unpause", <<caller, tokenId>>, "", <<>>)
             /\ UNCHANGED <<owner, rewards, claimToReward, stakes, userStakes,
                            oracleVars, vaultVars, now, peripheryVars>>

(* ClaimSBT.approve / setApprovalForAll / transferFrom / safeTransferFrom (both *)
(* overloads): each override reverts; what it overrides is the ERC721 transfer  *)
(* (or approval, which changes no claim).                                       *)
ClaimTransferFunctions ==
    {"approve", "setApprovalForAll", "transferFrom", "safeTransferFrom",
     "safeTransferFromData"}

(* The ERC721 functions as inherited, without the overrides and the hook. *)
ClaimTransferRevert_Inherited(fn, caller, from, to, tokenId) ==
    IF ~ClaimExists(tokenId) THEN "ERC721: invalid token ID"
    ELSE IF caller # ClaimOwnerOf(tokenId)
         THEN "ERC721: caller is not token owner or approved"
    ELSE IF to = ZeroAddress THEN "ERC721: transfer to the zero address"
    ELSE ""

ClaimTransferRevert(fn, caller, from, to, tokenId) ==
    "SBT: Token is non-transferable"

ClaimTransfer(fn, caller, from, to, tokenId) ==
    LET e == ClaimTransferRevert(fn, caller, from, to, tokenId)
    IN  IF e # ""
        THEN /\ last' = Call(fn, <<"ClaimSBT", caller, from, to, tokenId>>, e, <<>>)
             /\ UNCHANGED <<registryVars, oracleVars, vaultVars, now, peripheryVars>>
        ELSE /\ claims' = IF fn \in {"approve", "setApprovalForAll"} THEN claims
                          ELSE [claims EXCEPT ![tokenId + 1].owner = to]
             /\ last' = Call(fn, <<"ClaimSBT", caller, from, to, tokenId>>, "", <<>>)
             /\ UNCHANGED <<owner, rewards, claimToReward, stakes, userStakes,
                            oracleVars, vaultVars, now, peripheryVars>>

----------------------------------------------------------------------------
(* RewardNFT. *)

RewardIds == 0..(Len(rewards) - 1)
RewardExists(tokenId) == tokenId \in RewardIds /\ rewards[tokenId + 1].owner # ZeroAddress
RewardData(tokenId) == rewards[tokenId + 1]

(* rewards[tokenId] of the mapping: the zero struct for an id never minted. *)
RewardIsActive(tokenId) == tokenId \in RewardIds /\ rewards[tokenId + 1].isActive

getRewardForClaim(claimTokenId) == claimToReward[claimTokenId]

hasActiveReward(claimTokenId) ==
    LET rewardTokenId == claimToReward[claimTokenId]
    IN  rewardTokenId # 0 /\ RewardIsActive(rewardTokenId)

(* claimOf(rewardId): the claim the reward is paired with. *)
claimOf(rewardId) == IF rewardId \in RewardIds THEN rewards[rewardId + 1].claimTokenId ELSE 0

MintRewardRevert(caller, claimTokenId) ==
    IF OnlyOwnerRevert("RewardNFT", caller) # "" THEN OnlyOwnerRevert("RewardNFT", caller)
    ELSE IF claimToReward[claimTokenId] # 0 THEN "Reward already exists for this claim"
    ELSE ""

MintedReward(to, claimTokenId, projectId, basisPoints) ==
    [owner |-> to, claimTokenId |-> claimTokenId, projectId |-> projectId,
     basisPoints |-> basisPoints, mintTimestamp |-> now, isActive |-> TRUE]

MintReward(caller, to, claimTokenId, projectId, basisPoints) ==
    LET e == MintRewardRevert(caller, claimTokenId)
        args == <<caller, to, claimTokenId, projectId, basisPoints>>
    IN  IF e # ""
        THEN /\ last' = Call("RewardNFT.mintReward", args, e, <<>>)
             /\ UNCHANGED <<registryVars, oracleVars, vaultVars, now, peripheryVars>>
        ELSE /\ Len(rewards) < MaxRewards
             /\ rewards' = Append(rewards,
                                  MintedReward(to, claimTokenId, projectId, basisPoints))
             /\ claimToReward' = [claimToReward EXCEPT ![claimTokenId] = Len(rewards)]
             /\ last' = Call("RewardNFT.mintReward", args, "", Len(rewards))
             /\ UNCHANGED <<owner, claims, stakes, userStakes, oracleVars, vaultVars, now, peripheryVars>>

RewardBurnRevert(caller, tokenId) ==
    IF OnlyOwnerRevert("RewardNFT", caller) # "" THEN OnlyOwnerRevert("RewardNFT", caller)
    ELSE IF ~RewardExists(tokenId) THEN "Token does not exist"
    ELSE IF ~RewardData(tokenId).isActive THEN "Reward already burned"
    ELSE ""

(* The storage of RewardNFT after burnReward(tokenId). *)
BurnedRewards(tokenId) ==
    [rewards EXCEPT ![tokenId + 1].isActive = FALSE, ![tokenId + 1].owner = ZeroAddress]

BurnedClaimToReward(tokenId) ==
    [claimToReward EXCEPT ![RewardData(tokenId).claimTokenId] = 0]

RewardNFT_burnReward(caller, tokenId) ==
    LET e == RewardBurnRevert(caller, tokenId)
    IN  IF e # ""
        THEN /\ last' = Call("RewardNFT.burnReward", <<caller, tokenId>>, e, <<>>)
             /\ UNCHANGED <<registryVars, oracleVars, vaultVars, now, peripheryVars>>
        ELSE /\ rewards' = BurnedRewards(tokenId)
             /\ claimToReward' = BurnedClaimToReward(tokenId)
             /\ last' = Call("RewardNFT.burnReward", <<caller, tokenId>>, "", <<>>)
             /\ UNCHANGED <<owner, claims, stakes, userStakes, oracleVars, vaultVars, now, peripheryVars>>

(* RewardNFT.transferFrom (ERC721): _beforeTokenTransfer adds nothing. *)
RewardTransferRevert(caller, from, to, tokenId) ==
    IF ~RewardExists(tokenId) THEN "ERC721: invalid token ID"
    ELSE IF caller # RewardData(tokenId).owner
         THEN "ERC721: caller is not token owner or approved"
    ELSE IF from # RewardData(tokenId).owner THEN "ERC721: transfer from incorrect owner"
    ELSE IF to = ZeroAddress THEN "ERC721: transfer to the zero address"
    ELSE ""

(* A transfer that resumes the paired claim. *)
RewardTransfer_Unpausing(caller, from, to, tokenId) ==
    LET e == RewardTransferRevert(caller, from, to, tokenId)
        args == <<"RewardNFT", caller, from, to, tokenId>>
    IN  IF e # ""
        THEN /\ last' = Call("transferFrom", args, e, <<>>)
             /\ UNCHANGED <<registryVars, oracleVars, vaultVars, now, peripheryVars>>
        ELSE /\ rewards' = [rewards EXCEPT ![tokenId + 1].owner = to]
             /\ claims' = [claims EXCEPT ![RewardData(tokenId).claimTokenId + 1].status =
                               "Active"]
             /\ last' = Call("transferFrom", args, "", <<>>)
             /\ UNCHANGED <<owner, claimToReward, stakes, userStakes,
                            oracleVars, vaultVars, now, peripheryVars>>

RewardTransfer(caller, from, to, tokenId) ==
    LET e == RewardTransferRevert(caller, from, to, tokenId)
        args == <<"RewardNFT", caller, from, to, tokenId>>
    IN  IF e # ""
        THEN /\ last' = Call("transferFrom", args, e, <<>>)
             /\ UNCHANGED <<registryVars, oracleVars, vaultVars, now, peripheryVars>>
        ELSE /\ rewards' = [rewards EXCEPT ![tokenId + 1].owner = to]
             /\ last' = Call("transferFrom", args, "", <<>>)
             /\ UNCHANGED <<owner, claims, claimToReward, stakes, userStakes,
                            oracleVars, vaultVars, now, peripheryVars>>

----------------------------------------------------------------------------
(* StakeManager. *)

StakeRevert(caller, claimId) ==
    IF ~ClaimExists(claimId) THEN "ERC721: invalid token ID"
    ELSE IF ClaimOwnerOf(claimId) # caller THEN "Not claim owner"
    ELSE IF stakes[claimId].isStaked THEN "Claim already staked"
    ELSE IF hasActiveReward(claimId) THEN "Reward NFT already exists"
    ELSE IF ClaimData(claimId).status # "Active" THEN "Claim not active"
    ELSE IF StatusRevert(StakeMgr, claimId) # "" THEN StatusRevert(StakeMgr, claimId)
    ELSE MintRewardRevert(StakeMgr, claimId)

stakeAndMintReward(caller, claimId) ==
    LET e == StakeRevert(caller, claimId)
    IN  IF e # ""
        THEN /\ last' = Call("stakeAndMintReward", <<caller, claimId>>, e, <<>>)
             /\ UNCHANGED <<registryVars, oracleVars, vaultVars, now, peripheryVars>>
        ELSE /\ Len(rewards) < MaxRewards
             /\ claims' = [claims EXCEPT ![claimId + 1].status = "Staked"]
             /\ stakes' = [stakes EXCEPT ![claimId] =
                              [claimTokenId |-> claimId, staker |-> caller,
                               isStaked |-> TRUE]]
             /\ userStakes' = [userStakes EXCEPT ![caller] = Append(@, claimId)]
             /\ rewards' = Append(rewards,
                    MintedReward(caller, claimId, ClaimData(claimId).projectId,
                                 ClaimData(claimId).basisPoints))
             /\ claimToReward' = [claimToReward EXCEPT ![claimId] = Len(rewards)]
             /\ last' = Call("stakeAndMintReward", <<caller, claimId>>, "", Len(rewards))
             /\ UNCHANGED <<owner, oracleVars, vaultVars, now, peripheryVars>>

(* StakeManager.burnReward without its ownership require. *)
BurnRevert_NoOwnerCheck(caller, rewardId) ==
    IF ~RewardExists(rewardId) THEN "ERC721: invalid token ID"
    ELSE IF claimOf(rewardId) = 0 THEN "Invalid reward NFT"
    ELSE IF RewardBurnRevert(StakeMgr, rewardId) # ""
         THEN RewardBurnRevert(StakeMgr, rewardId)
    ELSE StatusRevert(StakeMgr, claimOf(rewardId))

BurnRevert(caller, rewardId) ==
    IF ~RewardExists(rewardId) THEN "ERC721: invalid token ID"
    ELSE IF RewardData(rewardId).owner # caller THEN "Not reward NFT owner"
    ELSE IF claimOf(rewardId) = 0 THEN "Invalid reward NFT"
    ELSE IF RewardBurnRevert(StakeMgr, rewardId) # ""
         THEN RewardBurnRevert(StakeMgr, rewardId)
    ELSE StatusRevert(StakeMgr, claimOf(rewardId))

StakeManager_burnReward(caller, rewardId) ==
    LET e == BurnRevert(caller, rewardId)
        claimId == claimOf(rewardId)
    IN  IF e # ""
        THEN /\ last' = Call("StakeManager.burnReward", <<caller, rewardId>>, e, <<>>)
             /\ UNCHANGED <<registryVars, oracleVars, vaultVars, now, peripheryVars>>
        ELSE /\ rewards' = BurnedRewards(rewardId)
             /\ claimToReward' = BurnedClaimToReward(rewardId)
             /\ claims' = [claims EXCEPT ![claimId + 1].status = "Active"]
             /\ stakes' = [stakes EXCEPT ![claimId].isStaked = FALSE]
             /\ last' = Call("StakeManager.burnReward", <<caller, rewardId>>, "", <<>>)
             /\ UNCHANGED <<owner, userStakes, oracleVars, vaultVars, now, peripheryVars>>

(* StakeManager.onRewardTransferred: callable by RewardNFT only, and empty. *)
onRewardTransferred(caller, rewardTokenId, from, to) ==
    /\ last' = Call("onRewardTransferred", <<caller, rewardTokenId, from, to>>,
                    IF caller # "RewardNFT" THEN "Only RewardNFT can call this" ELSE "",
                    <<>>)
    /\ UNCHANGED <<registryVars, oracleVars, vaultVars, now, peripheryVars>>

----------------------------------------------------------------------------
(* ProjectVault: payment intake. *)

TotalFunding == 100000

(* the share as a percentage *)
BasisPoints_Percent(xrpAmount, totalFunding) == (xrpAmount * 100) \div totalFunding

BasisPoints(xrpAmount, totalFunding) == (xrpAmount * 10000) \div totalFunding

isPaymentProcessed(v, xrplTxHash) == Keccak256(xrplTxHash) \in processedPayments[v]

(* processPayment without its processedPayments check. *)
ProcessPaymentRevert_NoDuplicateCheck(v, caller, xrpAmount, xrplTxHash) ==
    IF caller # VaultOwner(v) THEN "Ownable: caller is not the owner"
    ELSE IF ~(xrpAmount > 0) THEN "Invalid amount"
    ELSE IF ~isXRPLPaymentVerified(xrplTxHash) THEN "XRPL payment not verified"
    ELSE IF ~(BasisPoints(xrpAmount, project[v].totalFunding) > 0)
         THEN "Contribution too small"
    ELSE ""

(* processPayment without its oracle check. *)
ProcessPaymentRevert_NoOracleCheck(v, caller, xrpAmount, xrplTxHash) ==
    IF caller # VaultOwner(v) THEN "Ownable: caller is not the owner"
    ELSE IF isPaymentProcessed(v, xrplTxHash) THEN "Payment already processed"
    ELSE IF ~(xrpAmount > 0) THEN "Invalid amount"
    ELSE IF ~(BasisPoints(xrpAmount, project[v].totalFunding) > 0)
         THEN "Contribution too small"
    ELSE ""

ProcessPaymentRevert(v, caller, xrpAmount, xrplTxHash) ==
    IF caller # VaultOwner(v) THEN "Ownable: caller is not the owner"
    ELSE IF ~project[v].isActive THEN "Project not active"
    ELSE IF isPaymentProcessed(v, xrplTxHash) THEN "Payment already processed"
    ELSE IF ~(xrpAmount > 0) THEN "Invalid amount"
    ELSE IF ~isXRPLPaymentVerified(xrplTxHash) THEN "XRPL payment not verified"
    ELSE IF ~(BasisPoints(xrpAmount, project[v].totalFunding) > 0)
         THEN "Contribution too small"
    ELSE MintClaimRevert(VaultAddress(v), BasisPoints(xrpAmount, project[v].totalFunding))

(* _safeMint(to, tokenId) of ERC721 *)
SafeMintRevert(to) == IF to = ZeroAddress THEN "ERC721: mint to the zero address" ELSE ""

(* processPayment whose writes survive a failure of the mint. *)
ProcessPayment_KeepingWrites(v, caller, investor, xrpAmount, xrplTxHash, xrpPrice) ==
    LET e == ProcessPaymentRevert(v, caller, xrpAmount, xrplTxHash)
        args == <<v, caller, investor, xrpAmount, xrplTxHash, xrpPrice>>
        basisPoints == BasisPoints(xrpAmount, project[v].totalFunding)
    IN  IF e # ""
        THEN /\ last' = Call("processPayment", args, e, <<>>)
             /\ UNCHANGED <<registryVars, oracleVars, vaultVars, now, peripheryVars>>
        ELSE /\ Len(claims) < MaxClaims
             /\ project' = [project EXCEPT ![v].totalRaised = @ + xrpAmount]
             /\ userContributions' =
                    [userContributions EXCEPT ![v][investor] = @ + xrpAmount]
             /\ processedPayments' =
                    [processedPayments EXCEPT ![v] = @ \cup {Keccak256(xrplTxHash)}]
             /\ claims' = IF SafeMintRevert(investor) # "" THEN claims
                          ELSE Append(claims,
                                   MintedClaim(investor, project[v].projectId, basisPoints,
                                               xrpPrice, xrplTxHash))
             /\ last' = Call("processPayment", args, SafeMintRevert(investor),
                             IF SafeMintRevert(investor) # "" THEN <<>> ELSE Len(claims))
             /\ UNCHANGED <<owner, rewards, claimToReward, stakes, userStakes,
                            oracleVars, milestones, revenueEntries, vaultBalance, now, peripheryVars>>

(* processPayment without the write of userContributions. *)
ProcessPayment_ForgettingContribution(v, caller, investor, xrpAmount, xrplTxHash, xrpPrice) ==
    LET r == ProcessPaymentRevert(v, caller, xrpAmount, xrplTxHash)
        e == IF r # "" THEN r ELSE SafeMintRevert(investor)
        args == <<v, caller, investor, xrpAmount, xrplTxHash, xrpPrice>>
        basisPoints == BasisPoints(xrpAmount, project[v].totalFunding)
    IN  IF e # ""
        THEN /\ last' = Call("processPayment", args, e, <<>>)
             /\ UNCHANGED <<registryVars, oracleVars, vaultVars, now, peripheryVars>>
        ELSE /\ Len(claims) < MaxClaims
             /\ project' = [project EXCEPT ![v].totalRaised = @ + xrpAmount]
             /\ processedPayments' =
                    [processedPayments EXCEPT ![v] = @ \cup {Keccak256(xrplTxHash)}]
             /\ claims' = Append(claims,
                    MintedClaim(investor, project[v].projectId, basisPoints,
                                xrpPrice, xrplTxHash))
             /\ last' = Call("processPayment", args, "", Len(claims))
             /\ UNCHANGED <<owner, rewards, claimToReward, stakes, userStakes,
                            oracleVars, userContributions, milestones, revenueEntries,
                            vaultBalance, now, peripheryVars>>

ProcessPaymentTx(v, caller, investor, xrpAmount, xrplTxHash, xrpPrice) ==
    LET r == ProcessPaymentRevert(v, caller, xrpAmount, xrplTxHash)
        e == IF r # "" THEN r ELSE SafeMintRevert(investor)
        args == <<v, caller, investor, xrpAmount, xrplTxHash, xrpPrice>>
        basisPoints == BasisPoints(xrpAmount, project[v].totalFunding)
    IN  IF e # ""
        THEN /\ last' = Call("processPayment", args, e, <<>>)
             /\ UNCHANGED <<registryVars, oracleVars, vaultVars, now, contractVars>>
        ELSE /\ Len(claims) < MaxClaims
             /\ project' = [project EXCEPT ![v].totalRaised = @ + xrpAmount]
             /\ userContributions' =
                    [userContributions EXCEPT ![v][investor] = @ + xrpAmount]
             /\ processedPayments' =
                    [processedPayments EXCEPT ![v] = @ \cup {Keccak256(xrplTxHash)}]
             /\ claims' = Append(claims,
                    MintedClaim(investor, project[v].projectId, basisPoints,
                                xrpPrice, xrplTxHash))
             /\ last' = Call("processPayment", args, "", Len(claims))
             /\ UNCHANGED <<owner, rewards, claimToReward, stakes, userStakes,
                            oracleVars, milestones, revenueEntries, vaultBalance, now, contractVars>>

(* processPayment sent by an account other than the relayer's handlers. *)
ProcessPayment(v, caller, investor, xrpAmount, xrplTxHash, xrpPrice) ==
    /\ ProcessPaymentTx(v, caller, investor, xrpAmount, xrplTxHash, xrpPrice)
    /\ UNCHANGED relayerVars

----------------------------------------------------------------------------
(* ProjectVault: revenue. *)

(* addRevenue without onlyOwner. *)
AddRevenueRevert_AnyCaller(v, caller, amount) ==
    IF ~(amount > 0) THEN "Invalid amount" ELSE ""

AddRevenueRevert(v, caller, amount) ==
    IF caller # VaultOwner(v) THEN "Ownable: caller is not the owner"
    ELSE IF ~(amount > 0) THEN "Invalid amount"
    ELSE ""

AddRevenue(v, caller, amount, source) ==
    LET e == AddRevenueRevert(v, caller, amount)
    IN  IF e # ""
        THEN /\ last' = Call("addRevenue", <<v, caller, amount, source>>, e, <<>>)
             /\ UNCHANGED <<registryVars, oracleVars, vaultVars, now, peripheryVars>>
        ELSE /\ Len(revenueEntries[v]) < MaxEntries
             /\ revenueEntries' = [revenueEntries EXCEPT ![v] =
                    Append(@, [amount |-> amount, timestamp |-> now, source |-> source])]
             /\ last' = Call("addRevenue", <<v, caller, amount, source>>, "", <<>>)
             /\ UNCHANGED <<registryVars, oracleVars, project, userContributions,
                            processedPayments, milestones, vaultBalance, now, peripheryVars>>

(* flareToken.transfer(vault, amount) by a holder of the token. *)
FundVault(v, amount) ==
    /\ vaultBalance' = [vaultBalance EXCEPT ![v] = @ + amount]
    /\ last' = Call("transfer", <<"flareToken", VaultAddress(v), amount>>, "", TRUE)
    /\ UNCHANGED <<registryVars, oracleVars, project, userContributions,
                   processedPayments, milestones, revenueEntries, now, peripheryVars>>

(* totalRevenue: the first loop of distributeRevenue. *)
TotalRevenue(v) ==
    LET F[i \in 0..Len(revenueEntries[v])] ==
            IF i = 0 THEN 0 ELSE F[i - 1] + revenueEntries[v][i].amount
    IN  F[Len(revenueEntries[v])]

IsActiveClaim(tokenId) == ClaimData(tokenId).status = "Active"

(* activeClaims and totalActiveBasisPoints: the second loop. *)
ActiveClaims(v) == Len(SelectSeq(getProjectClaims(project[v].projectId), IsActiveClaim))

TotalActiveBasisPoints(v) ==
    LET ids == getProjectClaims(project[v].projectId)
        F[i \in 0..Len(ids)] ==
            IF i = 0 THEN 0
            ELSE F[i - 1] + (IF IsActiveClaim(ids[i]) THEN ClaimData(ids[i]).basisPoints
                             ELSE 0)
    IN  F[Len(ids)]

(* share of one claim *)
Share_OfAllShares(totalRevenue, basisPoints, totalActiveBasisPoints) ==
    (totalRevenue * basisPoints) \div 10000

Share(totalRevenue, basisPoints, totalActiveBasisPoints) ==
    (totalRevenue * basisPoints) \div totalActiveBasisPoints

(* whether the third loop pays a claim *)
IsPaidClaim(tokenId) == ClaimData(tokenId).status = "Active"

(* The safeTransfer calls of the third loop, in order. *)
Payouts(v) ==
    LET ids == getProjectClaims(project[v].projectId)
        F[i \in 0..Len(ids)] ==
            IF i = 0 THEN <<>>
            ELSE LET share == Share(TotalRevenue(v), ClaimData(ids[i]).basisPoints,
                                    TotalActiveBasisPoints(v))
                 IN  IF IsPaidClaim(ids[i]) /\ share > 0
                     THEN Append(F[i - 1], [tokenId |-> ids[i],
                                            to |-> ClaimOwnerOf(ids[i]),
                                            amount |-> share])
                     ELSE F[i - 1]
    IN  F[Len(ids)]

SumPayouts(payouts) ==
    LET F[i \in 0..Len(payouts)] == IF i = 0 THEN 0 ELSE F[i - 1] + payouts[i].amount
    IN  F[Len(payouts)]

DistributeRevenueRevert_NoActiveCheck(v, caller) ==
    IF caller # VaultOwner(v) THEN "Ownable: caller is not the owner"
    ELSE IF ~(Len(revenueEntries[v]) > 0) THEN "No revenue to distribute"
    ELSE IF ~(TotalRevenue(v) > 0) THEN "No revenue available"
    ELSE IF TotalActiveBasisPoints(v) = 0 THEN "Panic: division by zero"
    ELSE IF SumPayouts(Payouts(v)) > vaultBalance[v]
         THEN "ERC20: transfer amount exceeds balance"
    ELSE ""

DistributeRevenueRevert(v, caller) ==
    IF caller # VaultOwner(v) THEN "Ownable: caller is not the owner"
    ELSE IF ~(Len(revenueEntries[v]) > 0) THEN "No revenue to distribute"
    ELSE IF ~(TotalRevenue(v) > 0) THEN "No revenue available"
    ELSE IF ~(ActiveClaims(v) > 0) THEN "No active claims"
    ELSE IF TotalActiveBasisPoints(v) = 0 THEN "Panic: division by zero"
    ELSE IF SumPayouts(Payouts(v)) > vaultBalance[v]
         THEN "ERC20: transfer amount exceeds balance"
    ELSE ""

(* delete revenueEntries *)
ClearedEntries_KeepRemainder(v) ==
    IF TotalRevenue(v) - SumPayouts(Payouts(v)) > 0
    THEN <<[amount |-> TotalRevenue(v) - SumPayouts(Payouts(v)), timestamp |-> now,
            source |-> "remainder"]>>
    ELSE <<>>

ClearedEntries(v) == <<>>

DistributeRevenue(v, caller) ==
    LET e == DistributeRevenueRevert(v, caller)
    IN  IF e # ""
        THEN /\ last' = Call("distributeRevenue", <<v, caller>>, e, <<>>)
             /\ UNCHANGED <<registryVars, oracleVars, vaultVars, now, peripheryVars>>
        ELSE /\ vaultBalance' = [vaultBalance EXCEPT ![v] = @ - SumPayouts(Payouts(v))]
             /\ revenueEntries' = [revenueEntries EXCEPT ![v] = ClearedEntries(v)]
             /\ last' = Call("distributeRevenue", <<v, caller>>, "",
                             [transfers |-> Payouts(v),
                              totalAmount |-> TotalRevenue(v),
                              activeClaims |-> ActiveClaims(v)])
             /\ UNCHANGED <<registryVars, oracleVars, project, userContributions,
                            processedPayments, milestones, now, peripheryVars>>

(* ReentrancyGuard.nonReentrant, entered being whether a guarded function of  *)
(* the vault is running.                                                     *)
ReentrancyGuardRevert(entered) ==
    IF entered THEN "ReentrancyGuard: reentrant call" ELSE ""

(* The calls a payout recipient's callback makes into the vault. *)
NestedCalls == {[op |-> "distributeRevenue", amount |-> 0],
                [op |-> "addRevenue", amount |-> 10]}

(* The modifiers and requires a nested call meets while distributeRevenue runs. *)
NestedCallRevert(v, caller, nested) ==
    IF nested.op = "distributeRevenue"
    THEN IF caller # VaultOwner(v) THEN "Ownable: caller is not the owner"
         ELSE ReentrancyGuardRevert(TRUE)
    ELSE AddRevenueRevert(v, caller, nested.amount)

(* distributeRevenue with a flareToken that notifies the recipient of a       *)
(* transfer: the callback of the first recipient makes one nested call into   *)
(* the vault and swallows its failure. An entry a nested addRevenue appends   *)
(* is removed with the others by delete revenueEntries.                       *)
DistributeRevenueWithCallback(v, caller, nested) ==
    LET e == DistributeRevenueRevert(v, caller)
    IN  IF e # ""
        THEN /\ last' = Call("distributeRevenue", <<v, caller>>, e, <<>>)
             /\ UNCHANGED <<registryVars, oracleVars, vaultVars, now, peripheryVars>>
        ELSE /\ Payouts(v) # <<>>
             /\ vaultBalance' = [vaultBalance EXCEPT ![v] = @ - SumPayouts(Payouts(v))]
             /\ revenueEntries' = [revenueEntries EXCEPT ![v] = ClearedEntries(v)]
             /\ last' = Call("distributeRevenue", <<v, caller>>, "",
                             [transfers |-> Payouts(v),
                              totalAmount |-> TotalRevenue(v),
                              activeClaims |-> ActiveClaims(v),
                              nested |-> [op |-> nested.op,
                                          caller |-> Payouts(v)[1].to,
                                          amount |-> nested.amount,
                                          err |-> NestedCallRevert(v, Payouts(v)[1].to,
                                                                   nested)]])
             /\ UNCHANGED <<registryVars, oracleVars, project, userContributions,
                            processedPayments, milestones, now, peripheryVars>>

(* The call a payout recipient's callback makes into StakeManager while the   *)
(* third loop of distributeRevenue is at that recipient's transfer.           *)
EngineCallRevert(caller, nested) ==
    IF nested.op = "stakeAndMintReward" THEN StakeRevert(caller, nested.id)
    ELSE BurnRevert(caller, nested.id)

(* The claim whose status the nested call changes. *)
EngineCallClaim(nested) ==
    IF nested.op = "stakeAndMintReward" THEN nested.id ELSE claimOf(nested.id)

(* getClaimData(tokenId).status as the third loop reads it at position i, the *)
(* nested call having run during the transfer at position k.                  *)
StatusDuringPayout(v, k, nested, i) ==
    LET ids == getProjectClaims(project[v].projectId)
    IN  IF i > k /\ ids[i] = EngineCallClaim(nested)
        THEN (IF nested.op = "stakeAndMintReward" THEN "Staked" ELSE "Active")
        ELSE ClaimData(ids[i]).status

(* The safeTransfer calls of the third loop when the recipient at position k  *)
(* calls StakeManager from its callback.                                      *)
PayoutsWithEngineCall(v, k, nested) ==
    LET ids == getProjectClaims(project[v].projectId)
        F[i \in 0..Len(ids)] ==
            IF i = 0 THEN <<>>
            ELSE LET share == Share(TotalRevenue(v), ClaimData(ids[i]).basisPoints,
                                    TotalActiveBasisPoints(v))
                 IN  IF StatusDuringPayout(v, k, nested, i) = "Active" /\ share > 0
                     THEN Append(F[i - 1], [tokenId |-> ids[i],
                                            to |-> ClaimOwnerOf(ids[i]),
                                            amount |-> share])
                     ELSE F[i - 1]
    IN  F[Len(ids)]

DistributeWithEngineCallRevert(v, caller, k, nested) ==
    IF caller # VaultOwner(v) THEN "Ownable: caller is not the owner"
    ELSE IF ~(Len(revenueEntries[v]) > 0) THEN "No revenue to distribute"
    ELSE IF ~(TotalRevenue(v) > 0) THEN "No revenue available"
    ELSE IF ~(ActiveClaims(v) > 0) THEN "No active claims"
    ELSE IF TotalActiveBasisPoints(v) = 0 THEN "Panic: division by zero"
    ELSE IF SumPayouts(PayoutsWithEngineCall(v, k, nested)) > vaultBalance[v]
         THEN "ERC20: transfer amount exceeds balance"
    ELSE ""

(* distributeRevenue with a flareToken that calls the recipient: the owner of *)
(* the claim at position k of the project's claims is paid and, from its      *)
(* callback, makes one successful call into StakeManager.                     *)
DistributeRevenueWithEngineCall(v, caller, k, nested) ==
    LET ids == getProjectClaims(project[v].projectId)
        recipient == ClaimOwnerOf(ids[k])
        e == DistributeWithEngineCallRevert(v, caller, k, nested)
        c == EngineCallClaim(nested)
        transfers == PayoutsWithEngineCall(v, k, nested)
    IN  /\ k \in 1..Len(ids)
        /\ IsPaidClaim(ids[k])
        /\ Share(TotalRevenue(v), ClaimData(ids[k]).basisPoints,
                 TotalActiveBasisPoints(v)) > 0
        /\ EngineCallRevert(recipient, nested) = ""
        /\ IF e # ""
           THEN /\ last' = Call("distributeRevenue", <<v, caller>>, e, <<>>)
                /\ UNCHANGED <<registryVars, oracleVars, vaultVars, now, peripheryVars>>
           ELSE /\ IF nested.op = "stakeAndMintReward"
                   THEN /\ Len(rewards) < MaxRewards
                        /\ claims' = [claims EXCEPT ![c + 1].status = "Staked"]
                        /\ stakes' = [stakes EXCEPT ![c] =
                                         [claimTokenId |-> c, staker |-> recipient,
                                          isStaked |-> TRUE]]
                        /\ userStakes' = [userStakes EXCEPT ![recipient] = Append(@, c)]
                        /\ rewards' = Append(rewards,
                               MintedReward(recipient, c, ClaimData(c).projectId,
                                            ClaimData(c).basisPoints))
                        /\ claimToReward' = [claimToReward EXCEPT ![c] = Len(rewards)]
                   ELSE /\ rewards' = BurnedRewards(nested.id)
                        /\ claimToReward' = BurnedClaimToReward(nested.id)
                        /\ claims' = [claims EXCEPT ![c + 1].status = "Active"]
                        /\ stakes' = [stakes EXCEPT ![c].isStaked = FALSE]
                        /\ UNCHANGED userStakes
                /\ vaultBalance' = [vaultBalance EXCEPT ![v] = @ - SumPayouts(transfers)]
                /\ revenueEntries' = [revenueEntries EXCEPT ![v] = ClearedEntries(v)]
                /\ last' = Call("distributeRevenue", <<v, caller>>, "",
                                [transfers |-> transfers,
                                 totalAmount |-> TotalRevenue(v),
                                 activeClaims |-> ActiveClaims(v),
                                 nested |-> [op |-> nested.op, caller |-> recipient,
                                             id |-> nested.id, err |-> ""]])
                /\ UNCHANGED <<owner, oracleVars, project, userContributions,
                               processedPayments, milestones, now, peripheryVars>>

----------------------------------------------------------------------------
(* OracleAdapter: milestone attestations. *)

Verifiers == {"verifier", "stranger"}

(* Strings and byte strings are the lists of the fields they are packed from. *)
EmptyString == <<>>

(* abi.encodePacked(...) of a list of fields: the bytes themselves. *)
EncodePacked(fields) == fields

(* The hexadecimal rendering of a bytes32 value, as a client passes it in a    *)
(* string argument.                                                            *)
ToHexString(bytes32) == <<"0x", bytes32>>

(* A signature: who signed which digest. *)
Sign(signer, digest) == [signer |-> signer, digest |-> digest]

(* messageHash.toEthSignedMessageHash().recover(signature): the signer when    *)
(* the signature is over this digest, some other address when it is not.       *)
Recover(digest, signature) ==
    IF signature.digest = digest THEN signature.signer ELSE "stranger"

SetVerifierAuthorization(caller, verifier, authorized) ==
    LET e == OnlyOwnerRevert("OracleAdapter", caller)
        args == <<caller, verifier, authorized>>
    IN  IF e # ""
        THEN /\ last' = Call("setVerifierAuthorization", args, e, <<>>)
             /\ UNCHANGED <<registryVars, oracleVars, vaultVars, now, peripheryVars>>
        ELSE /\ authorizedVerifiers' = IF authorized
                                       THEN authorizedVerifiers \cup {verifier}
                                       ELSE authorizedVerifiers \ {verifier}
             /\ last' = Call("setVerifierAuthorization", args, "", <<>>)
             /\ UNCHANGED <<registryVars, xrplPaymentProofs, milestoneAttestations,
                            vaultVars, now, peripheryVars>>

MessageHash(projectId, milestoneIndex, milestoneName, description, proofHash, timestamp) ==
    Keccak256(EncodePacked(<<projectId, milestoneIndex, milestoneName, description,
                             proofHash, timestamp>>))

AttestationHash(projectId, milestoneIndex, proofHash, timestamp) ==
    Keccak256(EncodePacked(<<projectId, milestoneIndex, proofHash, timestamp>>))

CreateMilestoneAttestationRevert_AnySigner(projectId, milestoneIndex, milestoneName, description, proofHash, signature) ==
    ""

CreateMilestoneAttestationRevert(projectId, milestoneIndex, milestoneName, description, proofHash, signature) ==
    LET signer == Recover(MessageHash(projectId, milestoneIndex, milestoneName,
                                      description, proofHash, now), signature)
    IN  IF signer \notin authorizedVerifiers THEN "Unauthorized verifier" ELSE ""

CreateMilestoneAttestation(caller, projectId, milestoneIndex, milestoneName, description, proofHash, signature) ==
    LET e == CreateMilestoneAttestationRevert(projectId, milestoneIndex, milestoneName,
                                              description, proofHash, signature)
        args == <<caller, projectId, milestoneIndex, milestoneName, description,
                  proofHash, signature>>
        key == AttestationHash(projectId, milestoneIndex, proofHash, now)
    IN  IF e # ""
        THEN /\ last' = Call("createMilestoneAttestation", args, e, <<>>)
             /\ UNCHANGED <<registryVars, oracleVars, vaultVars, now, peripheryVars>>
        ELSE /\ milestoneAttestations' =
                    {a \in milestoneAttestations : a.key # key} \cup
                    {[key |-> key, projectId |-> projectId,
                      milestoneIndex |-> milestoneIndex,
                      milestoneName |-> milestoneName, description |-> description,
                      proofHash |-> proofHash, timestamp |-> now,
                      verifier |-> Recover(MessageHash(projectId, milestoneIndex,
                                                       milestoneName, description,
                                                       proofHash, now), signature),
                      verified |-> TRUE]}
             /\ last' = Call("createMilestoneAttestation", args, "", key)
             /\ UNCHANGED <<registryVars, xrplPaymentProofs, authorizedVerifiers,
                            vaultVars, now, peripheryVars>>

(* verifyMilestoneAttestation asking for a verifier that is still authorised. *)
verifyMilestoneAttestation_StillAuthorized(attestationHash) ==
    \E a \in milestoneAttestations :
        a.key = attestationHash /\ a.verified /\ a.verifier \in authorizedVerifiers

verifyMilestoneAttestation(attestationHash) ==
    \E a \in milestoneAttestations :
        a.key = attestationHash /\ a.verified /\ a.verifier # ZeroAddress

----------------------------------------------------------------------------
(* ProjectVault: milestones. *)

AddMilestoneRevert(v, caller, unlockAmount) ==
    IF caller # VaultOwner(v) THEN "Ownable: caller is not the owner"
    ELSE IF ~project[v].isActive THEN "Project not active"
    ELSE IF ~(unlockAmount > 0) THEN "Invalid unlock amount"
    ELSE ""

AddMilestone(v, caller, name, description, unlockAmount) ==
    LET e == AddMilestoneRevert(v, caller, unlockAmount)
        args == <<v, caller, name, description, unlockAmount>>
    IN  IF e # ""
        THEN /\ last' = Call("addMilestone", args, e, <<>>)
             /\ UNCHANGED <<registryVars, oracleVars, vaultVars, now, peripheryVars>>
        ELSE /\ Len(milestones[v]) < MaxMilestones
             /\ milestones' = [milestones EXCEPT ![v] =
                    Append(@, [name |-> name, description |-> description,
                               unlockAmount |-> unlockAmount, status |-> "Pending",
                               unlockTimestamp |-> 0, attestationHash |-> EmptyString])]
             /\ last' = Call("addMilestone", args, "", <<>>)
             /\ UNCHANGED <<registryVars, oracleVars, project, userContributions,
                            processedPayments, revenueEntries, vaultBalance, now, peripheryVars>>

(* The digest unlockMilestone looks the attestation up under. *)
AttestationBytes_Direct(attestationHash) == attestationHash

AttestationBytes(attestationHash) == Keccak256(EncodePacked(attestationHash))

UnlockMilestoneRevert_NoAttestationCheck(v, caller, milestoneIndex, attestationHash) ==
    IF caller # VaultOwner(v) THEN "Ownable: caller is not the owner"
    ELSE IF ~(milestoneIndex < Len(milestones[v])) THEN "Invalid milestone"
    ELSE IF milestones[v][milestoneIndex + 1].status # "Pending"
         THEN "Milestone already unlocked"
    ELSE ""

UnlockMilestoneRevert_NoStatusCheck(v, caller, milestoneIndex, attestationHash) ==
    IF caller # VaultOwner(v) THEN "Ownable: caller is not the owner"
    ELSE IF ~(milestoneIndex < Len(milestones[v])) THEN "Invalid milestone"
    ELSE IF ~verifyMilestoneAttestation(AttestationBytes(attestationHash))
         THEN "Invalid attestation"
    ELSE ""

UnlockMilestoneRevert(v, caller, milestoneIndex, attestationHash) ==
    IF caller # VaultOwner(v) THEN "Ownable: caller is not the owner"
    ELSE IF ~(milestoneIndex < Len(milestones[v])) THEN "Invalid milestone"
    ELSE IF milestones[v][milestoneIndex + 1].status # "Pending"
         THEN "Milestone already unlocked"
    ELSE IF ~verifyMilestoneAttestation(AttestationBytes(attestationHash))
         THEN "Invalid attestation"
    ELSE ""

UnlockMilestone(v, caller, milestoneIndex, attestationHash) ==
    LET e == UnlockMilestoneRevert(v, caller, milestoneIndex, attestationHash)
        args == <<v, caller, milestoneIndex, attestationHash>>
    IN  IF e # ""
        THEN /\ last' = Call("unlockMilestone", args, e, <<>>)
             /\ UNCHANGED <<registryVars, oracleVars, vaultVars, now, peripheryVars>>
        ELSE /\ milestones' = [milestones EXCEPT ![v][milestoneIndex + 1] =
                    [@ EXCEPT !.status = "Unlocked", !.unlockTimestamp = now,
                              !.attestationHash = attestationHash]]
             /\ last' = Call("unlockMilestone", args, "", <<>>)
             /\ UNCHANGED <<registryVars, oracleVars, project, userContributions,
                            processedPayments, revenueEntries, vaultBalance, now, peripheryVars>>

(* block.timestamp of a later block *)
AdvanceTime ==
    /\ now < MaxTime
    /\ now' = now + 1
    /\ last' = Call("block", <<now + 1>>, "", <<>>)
    /\ UNCHANGED <<registryVars, oracleVars, vaultVars, peripheryVars>>

----------------------------------------------------------------------------
(* RevenueSplitter. *)

Splitter == "revenueSplitter"
Accounts == Users \cup {Admin, Splitter}
SplitProjects == 0..1
InitialAsset == 100

(* if (activeHolders[i].isActive && activeHolders[i].basisPoints > 0), without *)
(* the test of isActive.                                                       *)
IsPaidHolder_Inactive(h) == h.basisPoints > 0

IsPaidHolder(h) == h.isActive /\ h.basisPoints > 0

(* totalBasisPoints and activeCount: the first loop. *)
SplitTotalBasisPoints(activeHolders) ==
    LET F[i \in 0..Len(activeHolders)] ==
            IF i = 0 THEN 0
            ELSE F[i - 1] + (IF IsPaidHolder(activeHolders[i])
                             THEN activeHolders[i].basisPoints ELSE 0)
    IN  F[Len(activeHolders)]

SplitActiveCount(activeHolders) ==
    Cardinality({i \in 1..Len(activeHolders) : IsPaidHolder(activeHolders[i])})

SplitShare(amount, h, totalBasisPoints) == (amount * h.basisPoints) \div totalBasisPoints

(* The transfers of the second loop, in order: <<holder, share>>. *)
SplitTransfers(amount, activeHolders) ==
    LET total == SplitTotalBasisPoints(activeHolders)
        F[i \in 0..Len(activeHolders)] ==
            IF i = 0 THEN <<>>
            ELSE IF /\ IsPaidHolder(activeHolders[i])
                    /\ SplitShare(amount, activeHolders[i], total) > 0
                 THEN Append(F[i - 1], <<activeHolders[i].holder,
                                         SplitShare(amount, activeHolders[i], total)>>)
                 ELSE F[i - 1]
    IN  F[Len(activeHolders)]

(* What the transfers give to one account. *)
SplitReceived(transfers, a) ==
    LET F[i \in 0..Len(transfers)] ==
            IF i = 0 THEN 0
            ELSE F[i - 1] + (IF transfers[i][1] = a THEN transfers[i][2] ELSE 0)
    IN  F[Len(transfers)]

(* What the transfers take from the splitter. *)
SplitPaidOut(transfers) ==
    LET F[i \in 0..Len(transfers)] ==
            IF i = 0 THEN 0 ELSE F[i - 1] + transfers[i][2]
    IN  F[Len(transfers)]

(* The requires of split and splitForProject, then safeTransferFrom (the caller *)
(* has approved the splitter).                                                  *)
SplitRevert(caller, amount, activeHolders) ==
    IF ~(amount > 0) THEN "Invalid amount"
    ELSE IF ~(Len(activeHolders) > 0) THEN "No active holders"
    ELSE IF ~(SplitTotalBasisPoints(activeHolders) > 0) THEN "No valid holders"
    ELSE IF ~(SplitTotalBasisPoints(activeHolders) <= 10000)
         THEN "Invalid basis points total"
    ELSE IF assetBalance[caller] < amount THEN "ERC20: transfer amount exceeds balance"
    ELSE ""

(* The body shared by split (which records under project 0) and splitForProject. *)
SplitInto(op, args, projectId, caller, amount, activeHolders) ==
    LET e == SplitRevert(caller, amount, activeHolders)
        transfers == SplitTransfers(amount, activeHolders)
        pulled == [assetBalance EXCEPT ![caller] = @ - amount, ![Splitter] = @ + amount]
    IN  IF e # ""
        THEN /\ last' = Call(op, args, e, <<>>)
             /\ UNCHANGED <<registryVars, oracleVars, vaultVars, now, peripheryVars>>
        ELSE /\ Len(projectDistributions[projectId]) < MaxEntries
             /\ assetBalance' =
                    [a \in Accounts |->
                        pulled[a] + SplitReceived(transfers, a)
                            - (IF a = Splitter THEN SplitPaidOut(transfers) ELSE 0)]
             /\ userDistributions' =
                    [userDistributions EXCEPT ![projectId] =
                        [a \in Accounts |-> @[a] + SplitReceived(transfers, a)]]
             /\ projectDistributions' =
                    [projectDistributions EXCEPT ![projectId] =
                        Append(@, [projectId |-> projectId, totalAmount |-> amount,
                                   totalBasisPoints |-> SplitTotalBasisPoints(activeHolders),
                                   timestamp |-> now,
                                   activeHolders |-> SplitActiveCount(activeHolders)])]
             /\ last' = Call(op, args, "", transfers)
             /\ UNCHANGED <<registryVars, oracleVars, vaultVars, now, relayerVars,
                            sessionVars, fassetVars, badgeVars>>

split(caller, amount, activeHolders) ==
    SplitInto("split", <<caller, amount, activeHolders>>, 0, caller, amount, activeHolders)

splitForProject(caller, projectId, amount, activeHolders) ==
    SplitInto("splitForProject", <<caller, projectId, amount, activeHolders>>, projectId,
              caller, amount, activeHolders)

----------------------------------------------------------------------------
(* RelayerService and the XRPLService it monitors through.  The relayer signs  *)
(* as the administrator.  One XRPL payment goes to each address; the config    *)
(* registered with an address names the vault of the same number.              *)

XRPLAddresses == {"rProject1", "rProject2"}
VaultOf(address) == IF address = "rProject1" THEN 1 ELSE 2
XRPLPayments == {"tx1", "tx2"}
Destination(tx) == IF tx = "tx1" THEN "rProject1" ELSE "rProject2"
Drops(tx) == 1000000000

(* parseFloat(payment.Amount) / 1000000 *)
XRPAmount(tx) == Drops(tx) \div 1000000

(* startPaymentMonitoring: for every entry of the map, monitorPayments, which  *)
(* subscribes to the address and registers one more 'transaction' listener.    *)
startPaymentMonitoring(registered) ==
    /\ isMonitoring' = TRUE
    /\ subscriptions' = subscriptions \cup registered
    /\ listeners' = [a \in XRPLAddresses |->
                        IF a \in registered THEN listeners[a] + 1 ELSE listeners[a]]

startMonitoring(xrplAddress) ==
    /\ monitoredAddresses' = monitoredAddresses \cup {xrplAddress}
    /\ IF ~isMonitoring
       THEN startPaymentMonitoring(monitoredAddresses \cup {xrplAddress})
       ELSE UNCHANGED <<isMonitoring, subscriptions, listeners>>
    /\ last' = Call("startMonitoring", <<xrplAddress>>, "", <<>>)
    /\ UNCHANGED <<registryVars, oracleVars, vaultVars, now, contractVars, handlers>>

(* stopMonitoring: the flag, then unsubscribe with an empty list of accounts;  *)
(* the listeners stay registered.                                              *)
stopMonitoring ==
    /\ isMonitoring' = FALSE
    /\ last' = Call("stopMonitoring", <<>>, "", <<>>)
    /\ UNCHANGED <<registryVars, oracleVars, vaultVars, now, contractVars,
                   monitoredAddresses, subscriptions, listeners, handlers>>

(* The server notifies the client of a payment to a subscribed account; every  *)
(* listener whose address is the destination calls handlePayment.  The call    *)
(* returns the number of handlers started.                                     *)
Started(tx) ==
    IF Destination(tx) \in subscriptions THEN listeners[Destination(tx)] ELSE 0

NewHandlers(tx, n) == [i \in 1..n |-> [tx |-> tx, pc |-> "isPaymentProcessed"]]

DeliverPayment(tx) ==
    /\ handlers' = handlers \o NewHandlers(tx, Started(tx))
    /\ last' = Call("transaction", <<tx, Destination(tx)>>, "", Started(tx))
    /\ UNCHANGED <<registryVars, oracleVars, vaultVars, now, contractVars,
                   isMonitoring, monitoredAddresses, subscriptions, listeners>>

RemoveAt(seq, i) == SubSeq(seq, 1, i - 1) \o SubSeq(seq, i + 1, Len(seq))

(* handlePayment up to its first contract call: the handler returns if the     *)
(* vault has processed the payment.                                            *)
HandlerCheck(i) ==
    /\ i \in 1..Len(handlers)
    /\ handlers[i].pc = "isPaymentProcessed"
    /\ LET tx == handlers[i].tx
           isProcessed == isPaymentProcessed(VaultOf(Destination(tx)), tx)
       IN  /\ handlers' = IF isProcessed THEN RemoveAt(handlers, i)
                          ELSE [handlers EXCEPT ![i].pc = "verifyXRPLPayment"]
           /\ last' = Call("isPaymentProcessed", <<tx>>, "", isProcessed)
    /\ UNCHANGED <<registryVars, oracleVars, vaultVars, now, contractVars,
                   isMonitoring, monitoredAddresses, subscriptions, listeners>>

(* await oracleAdapter.verifyXRPLPayment(...): a revert is an exception, which *)
(* the catch block logs, and the handler ends.                                 *)
HandlerVerify(i) ==
    /\ i \in 1..Len(handlers)
    /\ handlers[i].pc = "verifyXRPLPayment"
    /\ LET tx == handlers[i].tx
       IN  /\ VerifyXRPLPaymentTx(Admin, tx, "alice", Destination(tx), XRPAmount(tx), now, 7)
           /\ handlers' = IF VerifyXRPLPaymentRevert(Admin, tx) # ""
                          THEN RemoveAt(handlers, i)
                          ELSE [handlers EXCEPT ![i].pc = "processPayment"]
    /\ UNCHANGED <<isMonitoring, monitoredAddresses, subscriptions, listeners>>

(* await contractService.processPayment(...): the last call of the handler. *)
HandlerProcess(i) ==
    /\ i \in 1..Len(handlers)
    /\ handlers[i].pc = "processPayment"
    /\ LET tx == handlers[i].tx
       IN  ProcessPaymentTx(VaultOf(Destination(tx)), Admin, "alice", XRPAmount(tx), tx, 1)
    /\ handlers' = RemoveAt(handlers, i)
    /\ UNCHANGED <<isMonitoring, monitoredAddresses, subscriptions, listeners>>

(* The same call rejected before it reaches the chain (the provider fails):    *)
(* the catch block logs the error and the handler ends.                        *)
HandlerProcessRejected(i) ==
    /\ i \in 1..Len(handlers)
    /\ handlers[i].pc = "processPayment"
    /\ handlers' = RemoveAt(handlers, i)
    /\ last' = Call("processPayment", <<VaultOf(Destination(handlers[i].tx)), Admin,
                                        "alice", XRPAmount(handlers[i].tx),
                                        handlers[i].tx, 1>>, "provider error", <<>>)
    /\ UNCHANGED <<registryVars, oracleVars, vaultVars, now, contractVars,
                   isMonitoring, monitoredAddresses, subscriptions, listeners>>

----------------------------------------------------------------------------
(* SessionKeyManager, deployed (and so owned) by the administrator. *)

SessionKeys == {Admin}
Relayers == {Admin, "relayer"}

SessionKeyHash(user, sessionKey, validUntil, maxGasPrice, maxGasLimit) ==
    Keccak256(EncodePacked(<<user, sessionKey, validUntil, maxGasPrice, maxGasLimit,
                             "chainid">>))

CreateSessionKeyRevert(caller, sessionKey, validUntil, maxGasPrice, maxGasLimit, signature) ==
    IF ~(validUntil > now) THEN "Invalid expiration time"
    ELSE IF ~(maxGasPrice > 0) THEN "Invalid max gas price"
    ELSE IF ~(maxGasLimit > 0) THEN "Invalid max gas limit"
    ELSE IF <<caller, sessionKey>> \in isSessionKeyActive THEN "Session key already active"
    ELSE IF Recover(SessionKeyHash(caller, sessionKey, validUntil, maxGasPrice,
                                   maxGasLimit), signature) # sessionKey
         THEN "Invalid signature"
    ELSE ""

createSessionKey(caller, sessionKey, validUntil, maxGasPrice, maxGasLimit, signature) ==
    LET e == CreateSessionKeyRevert(caller, sessionKey, validUntil, maxGasPrice,
                                    maxGasLimit, signature)
        args == <<caller, sessionKey, validUntil, maxGasPrice, maxGasLimit, signature>>
    IN  IF e # ""
        THEN /\ last' = Call("createSessionKey", args, e, <<>>)
             /\ UNCHANGED <<registryVars, oracleVars, vaultVars, now, peripheryVars>>
        ELSE /\ userSessionKeys' =
                    [userSessionKeys EXCEPT ![caller] =
                        Append(@, [user |-> caller, sessionKey |-> sessionKey,
                                   validUntil |-> validUntil, maxGasPrice |-> maxGasPrice,
                                   maxGasLimit |-> maxGasLimit, isActive |-> TRUE,
                                   createdAt |-> now])]
             /\ isSessionKeyActive' = isSessionKeyActive \cup {<<caller, sessionKey>>}
             /\ last' = Call("createSessionKey", args, "", <<>>)
             /\ UNCHANGED <<registryVars, oracleVars, vaultVars, now, splitterVars,
                            relayerVars, fassetVars, badgeVars, userTransactions,
                            userNonces, sponsoredGasUsed>>

(* The index of the first entry of the list with this key, 0 if there is none: *)
(* where the loop of revokeSessionKey breaks.                                  *)
FirstEntryOf(keys, sessionKey) ==
    IF \E i \in 1..Len(keys) : keys[i].sessionKey = sessionKey
    THEN CHOOSE i \in 1..Len(keys) :
             /\ keys[i].sessionKey = sessionKey
             /\ \A j \in 1..(i - 1) : keys[j].sessionKey # sessionKey
    ELSE 0

revokeSessionKey(caller, sessionKey) ==
    LET i == FirstEntryOf(userSessionKeys[caller], sessionKey)
    IN  IF <<caller, sessionKey>> \notin isSessionKeyActive
        THEN /\ last' = Call("revokeSessionKey", <<caller, sessionKey>>,
                             "Session key not active", <<>>)
             /\ UNCHANGED <<registryVars, oracleVars, vaultVars, now, peripheryVars>>
        ELSE /\ userSessionKeys' =
                    IF i = 0 THEN userSessionKeys
                    ELSE [userSessionKeys EXCEPT ![caller][i].isActive = FALSE]
             /\ isSessionKeyActive' = isSessionKeyActive \ {<<caller, sessionKey>>}
             /\ last' = Call("revokeSessionKey", <<caller, sessionKey>>, "", <<>>)
             /\ UNCHANGED <<registryVars, oracleVars, vaultVars, now, splitterVars,
                            relayerVars, fassetVars, badgeVars, userTransactions,
                            userNonces, sponsoredGasUsed>>

emergencyRevokeAllSessionKeys(caller, user) ==
    IF caller # Admin
    THEN /\ last' = Call("emergencyRevokeAllSessionKeys", <<caller, user>>,
                         "Ownable: caller is not the owner", <<>>)
         /\ UNCHANGED <<registryVars, oracleVars, vaultVars, now, peripheryVars>>
    ELSE /\ userSessionKeys' =
                [userSessionKeys EXCEPT ![user] =
                    [i \in 1..Len(@) |-> [@[i] EXCEPT !.isActive = FALSE]]]
         /\ isSessionKeyActive' =
                {p \in isSessionKeyActive :
                    ~(/\ p[1] = user
                      /\ \E i \in 1..Len(userSessionKeys[user]) :
                             /\ userSessionKeys[user][i].isActive
                             /\ userSessionKeys[user][i].sessionKey = p[2])}
         /\ last' = Call("emergencyRevokeAllSessionKeys", <<caller, user>>, "", <<>>)
         /\ UNCHANGED <<registryVars, oracleVars, vaultVars, now, splitterVars,
                        relayerVars, fassetVars, badgeVars, userTransactions, userNonces,
                        sponsoredGasUsed>>

(* getActiveSessionKey: the index of the first entry with this key that is     *)
(* active and not expired, 0 where the function reverts.                       *)
getActiveSessionKey(user, sessionKey) ==
    LET keys == userSessionKeys[user]
        found == {i \in 1..Len(keys) : /\ keys[i].sessionKey = sessionKey
                                       /\ keys[i].isActive
                                       /\ keys[i].validUntil > now}
    IN  IF found = {} THEN 0 ELSE CHOOSE i \in found : \A j \in found : i <= j

TransactionHash(user, to, value, data, gasLimit, nonce) ==
    Keccak256(EncodePacked(<<user, to, value, Keccak256(data), gasLimit, nonce, "chainid">>))

(* The requires of executeTransaction, in order; tx.gasprice is 1. *)
ExecuteTransactionRevert(caller, user, to, value, data, gasLimit, nonce, signature) ==
    IF caller # Admin THEN "Ownable: caller is not the owner"
    ELSE IF <<user, caller>> \notin isSessionKeyActive THEN "Invalid session key"
    ELSE IF <<user, nonce>> \in userTransactions THEN "Transaction already executed"
    ELSE IF nonce # userNonces[user] THEN "Invalid nonce"
    ELSE IF Recover(TransactionHash(user, to, value, data, gasLimit, nonce), signature)
                # caller
         THEN "Invalid signature"
    ELSE IF getActiveSessionKey(user, caller) = 0 THEN "Session key not found or expired"
    ELSE IF ~(userSessionKeys[user][getActiveSessionKey(user, caller)].validUntil > now)
         THEN "Session key expired"
    ELSE IF ~(gasLimit <= userSessionKeys[user][getActiveSessionKey(user, caller)].maxGasLimit)
         THEN "Gas limit exceeded"
    ELSE IF ~(1 <= userSessionKeys[user][getActiveSessionKey(user, caller)].maxGasPrice)
         THEN "Gas price exceeded"
    ELSE ""

(* executeTransaction; the call it forwards succeeds or fails. *)
executeTransaction(caller, user, to, value, data, gasLimit, nonce, signature, success) ==
    LET e == ExecuteTransactionRevert(caller, user, to, value, data, gasLimit, nonce,
                                      signature)
        args == <<caller, user, to, value, data, gasLimit, nonce, signature>>
    IN  IF e # ""
        THEN /\ last' = Call("executeTransaction", args, e, <<>>)
             /\ UNCHANGED <<registryVars, oracleVars, vaultVars, now, peripheryVars>>
        ELSE /\ userTransactions' = userTransactions \cup {<<user, nonce>>}
             /\ userNonces' = [userNonces EXCEPT ![user] = @ + 1]
             /\ sponsoredGasUsed' =
                    IF success THEN [sponsoredGasUsed EXCEPT ![user] = @ + gasLimit]
                    ELSE sponsoredGasUsed
             /\ last' = Call("executeTransaction", args, "", success)
             /\ UNCHANGED <<registryVars, oracleVars, vaultVars, now, splitterVars,
                            relayerVars, fassetVars, badgeVars, userSessionKeys,
                            isSessionKeyActive>>

----------------------------------------------------------------------------
(* FAssetManager, deployed (and so owned) by the administrator. *)

NoRequest ==
    [user |-> ZeroAddress, amount |-> 0, xrplTxHash |-> "", timestamp |-> 0,
     processed |-> FALSE]

CreateMintRequestRevert(caller, xrplTxHash, amount) ==
    IF caller # Admin THEN "Ownable: caller is not the owner"
    ELSE IF mintRequests[xrplTxHash].user # ZeroAddress THEN "Request already exists"
    ELSE IF ~(amount > 0) THEN "Invalid amount"
    ELSE ""

createMintRequest(caller, xrplTxHash, user, amount) ==
    LET e == CreateMintRequestRevert(caller, xrplTxHash, amount)
        args == <<caller, xrplTxHash, user, amount>>
    IN  IF e # ""
        THEN /\ last' = Call("createMintRequest", args, e, <<>>)
             /\ UNCHANGED <<registryVars, oracleVars, vaultVars, now, peripheryVars>>
        ELSE /\ mintRequests' =
                    [mintRequests EXCEPT ![xrplTxHash] =
                        [user |-> user, amount |-> amount, xrplTxHash |-> xrplTxHash,
                         timestamp |-> now, processed |-> FALSE]]
             /\ pendingMintRequests' = Append(pendingMintRequests, xrplTxHash)
             /\ last' = Call("createMintRequest", args, "", xrplTxHash)
             /\ UNCHANGED <<registryVars, oracleVars, vaultVars, now, splitterVars,
                            sessionVars, badgeVars, relayerVars, fxrpBalance>>

(* The removal loop of processMintRequest: the first entry equal to the hash   *)
(* is overwritten by the last entry, and the list is popped.                   *)
SwapRemove(pending, xrplTxHash) ==
    IF \E i \in 1..Len(pending) : pending[i] = xrplTxHash
    THEN LET i == CHOOSE k \in 1..Len(pending) :
                      /\ pending[k] = xrplTxHash
                      /\ \A j \in 1..(k - 1) : pending[j] # xrplTxHash
         IN  SubSeq([pending EXCEPT ![i] = pending[Len(pending)]], 1, Len(pending) - 1)
    ELSE pending

(* The state of the manager: requests, pending list, FXRP balances. *)
ProcessRevert(state, xrplTxHash) ==
    IF state[1][xrplTxHash].user = ZeroAddress THEN "Request not found"
    ELSE IF state[1][xrplTxHash].processed THEN "Request already processed"
    ELSE ""

Processed(state, xrplTxHash) ==
    <<[state[1] EXCEPT ![xrplTxHash].processed = TRUE],
      SwapRemove(state[2], xrplTxHash),
      [state[3] EXCEPT ![state[1][xrplTxHash].user] = @ + state[1][xrplTxHash].amount]>>

processMintRequest(caller, xrplTxHash) ==
    LET state == <<mintRequests, pendingMintRequests, fxrpBalance>>
        e == IF caller # Admin THEN "Ownable: caller is not the owner"
             ELSE ProcessRevert(state, xrplTxHash)
    IN  IF e # ""
        THEN /\ last' = Call("processMintRequest", <<caller, xrplTxHash>>, e, <<>>)
             /\ UNCHANGED <<registryVars, oracleVars, vaultVars, now, peripheryVars>>
        ELSE /\ mintRequests' = Processed(state, xrplTxHash)[1]
             /\ pendingMintRequests' = Processed(state, xrplTxHash)[2]
             /\ fxrpBalance' = Processed(state, xrplTxHash)[3]
             /\ last' = Call("processMintRequest", <<caller, xrplTxHash>>, "", <<>>)
             /\ UNCHANGED <<registryVars, oracleVars, vaultVars, now, splitterVars,
                            sessionVars, badgeVars, relayerVars>>

(* The loop of batchProcessMintRequests: the state after the first i hashes    *)
(* and the first revert met, if any.                                           *)
BatchProcessed(xrplTxHashes) ==
    LET F[i \in 0..Len(xrplTxHashes)] ==
            IF i = 0
            THEN [state |-> <<mintRequests, pendingMintRequests, fxrpBalance>>, err |-> ""]
            ELSE IF F[i - 1].err # "" THEN F[i - 1]
            ELSE IF ProcessRevert(F[i - 1].state, xrplTxHashes[i]) # ""
                 THEN [F[i - 1] EXCEPT
                           !.err = ProcessRevert(F[i - 1].state, xrplTxHashes[i])]
            ELSE [state |-> Processed(F[i - 1].state, xrplTxHashes[i]), err |-> ""]
    IN  F[Len(xrplTxHashes)]

batchProcessMintRequests(caller, xrplTxHashes) ==
    LET e == IF caller # Admin THEN "Ownable: caller is not the owner"
             ELSE BatchProcessed(xrplTxHashes).err
    IN  IF e # ""
        THEN /\ last' = Call("batchProcessMintRequests", <<caller, xrplTxHashes>>, e, <<>>)
             /\ UNCHANGED <<registryVars, oracleVars, vaultVars, now, peripheryVars>>
        ELSE /\ mintRequests' = BatchProcessed(xrplTxHashes).state[1]
             /\ pendingMintRequests' = BatchProcessed(xrplTxHashes).state[2]
             /\ fxrpBalance' = BatchProcessed(xrplTxHashes).state[3]
             /\ last' = Call("batchProcessMintRequests", <<caller, xrplTxHashes>>, "", <<>>)
             /\ UNCHANGED <<registryVars, oracleVars, vaultVars, now, splitterVars,
                            sessionVars, badgeVars, relayerVars>>

----------------------------------------------------------------------------
(* XLS20Badge, deployed (and so owned) by the administrator; no other minter   *)
(* has been authorised.                                                        *)

BadgeIds == 0..(Len(badges) - 1)
BadgeExists(badgeId) == badgeId \in BadgeIds /\ badges[badgeId + 1].owner # ZeroAddress

MintBadgeRevert(caller, to, rewardTokenId) ==
    IF caller # Admin THEN "Unauthorized minter"
    ELSE IF rewardToBadge[rewardTokenId] # 0 THEN "Badge already exists for this reward"
    ELSE IF to = ZeroAddress THEN "ERC721: mint to the zero address"
    ELSE ""

mintBadge(caller, to, rewardTokenId, projectId, basisPoints) ==
    LET e == MintBadgeRevert(caller, to, rewardTokenId)
        args == <<caller, to, rewardTokenId, projectId, basisPoints>>
        badgeId == Len(badges)
    IN  IF e # ""
        THEN /\ last' = Call("mintBadge", args, e, <<>>)
             /\ UNCHANGED <<registryVars, oracleVars, vaultVars, now, peripheryVars>>
        ELSE /\ badges' = Append(badges,
                    [owner |-> to, rewardTokenId |-> rewardTokenId,
                     projectId |-> projectId, basisPoints |-> basisPoints,
                     xrplTokenId |-> badgeId, xrplAccount |-> "",
                     mintTimestamp |-> now, isActive |-> TRUE])
             /\ rewardToBadge' = [rewardToBadge EXCEPT ![rewardTokenId] = badgeId]
             /\ xrplTokenToBadge' = [xrplTokenToBadge EXCEPT ![badgeId] = badgeId]
             /\ last' = Call("mintBadge", args, "", badgeId)
             /\ UNCHANGED <<registryVars, oracleVars, vaultVars, now, splitterVars,
                            sessionVars, fassetVars, relayerVars>>

BurnBadgeRevert(caller, badgeId) ==
    IF ~BadgeExists(badgeId) THEN "Badge does not exist"
    ELSE IF ~(badges[badgeId + 1].owner = caller \/ caller = Admin) THEN "Not authorized"
    ELSE IF ~badges[badgeId + 1].isActive THEN "Badge already burned"
    ELSE ""

burnBadge(caller, badgeId) ==
    LET e == BurnBadgeRevert(caller, badgeId)
    IN  IF e # ""
        THEN /\ last' = Call("burnBadge", <<caller, badgeId>>, e, <<>>)
             /\ UNCHANGED <<registryVars, oracleVars, vaultVars, now, peripheryVars>>
        ELSE /\ badges' = [badges EXCEPT ![badgeId + 1].isActive = FALSE,
                                         ![badgeId + 1].owner = ZeroAddress]
             /\ rewardToBadge' =
                    [rewardToBadge EXCEPT ![badges[badgeId + 1].rewardTokenId] = 0]
             /\ xrplTokenToBadge' =
                    [xrplTokenToBadge EXCEPT ![badges[badgeId + 1].xrplTokenId] = 0]
             /\ last' = Call("burnBadge", <<caller, badgeId>>, "", <<>>)
             /\ UNCHANGED <<registryVars, oracleVars, vaultVars, now, splitterVars,
                            sessionVars, fassetVars, relayerVars>>

----------------------------------------------------------------------------
(* The state after construction.  The core contracts are deployed either by *)
(* the ProjectFactory constructor (which then owns them) or directly by the *)
(* administrator; every vault is owned by its creator.                      *)

Init ==
    /\ owner \in {[c \in Contracts |-> Factory], [c \in Contracts |-> Admin]}
    /\ claims = <<>>
    /\ rewards = <<>>
    /\ claimToReward = [c \in 0..MaxClaims |-> 0]
    /\ stakes = [c \in 0..MaxClaims |-> [claimTokenId |-> 0, staker |-> ZeroAddress,
                                         isStaked |-> FALSE]]
    /\ userStakes = [u \in Users |-> <<>>]
    /\ xrplPaymentProofs = [t \in TxHashes |-> NoProof]
    /\ authorizedVerifiers = {}
    /\ milestoneAttestations = {}
    /\ project = [v \in Vaults |->
                    [projectId |-> v, creator |-> Admin, totalFunding |-> TotalFunding,
                     totalRaised |-> 0, isActive |-> TRUE]]
    /\ userContributions = [v \in Vaults |-> [u \in Users \cup {Admin} |-> 0]]
    /\ processedPayments = [v \in Vaults |-> {}]
    /\ milestones = [v \in Vaults |-> <<>>]
    /\ revenueEntries = [v \in Vaults |-> <<>>]
    /\ vaultBalance = [v \in Vaults |-> 0]
    /\ now = 1
    /\ last = Call("constructor", <<>>, "", <<>>)
    /\ assetBalance = [a \in Accounts |-> IF a = Splitter THEN 0 ELSE InitialAsset]
    /\ userDistributions = [p \in SplitProjects |-> [a \in Accounts |-> 0]]
    /\ projectDistributions = [p \in SplitProjects |-> <<>>]
    /\ isMonitoring = FALSE
    /\ monitoredAddresses = {}
    /\ subscriptions = {}
    /\ listeners = [a \in XRPLAddresses |-> 0]
    /\ handlers = <<>>
    /\ userSessionKeys = [u \in Users |-> <<>>]
    /\ isSessionKeyActive = {}
    /\ userTransactions = {}
    /\ userNonces = [u \in Users |-> 0]
    /\ sponsoredGasUsed = [u \in Users |-> 0]
    /\ mintRequests = [h \in TxHashes |-> NoRequest]
    /\ pendingMintRequests = <<>>
    /\ fxrpBalance = [u \in Users |-> 0]
    /\ badges = <<>>
    /\ rewardToBadge = [r \in 0..MaxRewards |-> 0]
    /\ xrplTokenToBadge = [n \in 0..MaxEntries |-> 0]

----------------------------------------------------------------------------
(* Payment intake: the oracle's payment proofs and processPayment of every  *)
(* vault, called by the administrator or by another account.                *)

IntakeCallers == {Admin}
IntakeAmounts == {0, 5, 25000}
IntakeHashes == {"tx1", "tx2"}

IntakeVerify ==
    \E caller \in IntakeCallers, t \in IntakeHashes, amount \in {25000, 50000} :
        VerifyXRPLPayment(caller, t, "alice", Admin, amount, now, 7)

IntakeProcess ==
    \E v \in Vaults, caller \in IntakeCallers, investor \in Users,
       amount \in IntakeAmounts, t \in IntakeHashes :
        ProcessPayment(v, caller, investor, amount, t, 1)

NextIntake == IntakeVerify \/ IntakeProcess

SpecIntake == Init /\ [][NextIntake]_vars

----------------------------------------------------------------------------
(* Claims about payment intake. *)

ClaimsFor(v, xrplTxHash) ==
    {i \in ClaimIds : /\ ClaimData(i).projectId = project[v].projectId
                      /\ ClaimData(i).xrplSourceTx = xrplTxHash}

(* A step that is a processPayment call of the vault's owner. *)
IsProcessPaymentStep == last'.op = "processPayment" /\ last'.args[2] = VaultOwner(last'.args[1])

(* C1: once processPayment has succeeded with reference r on a project (a claim *)
(* of that project carries r), every later processPayment on that project with *)
(* r, whatever investor, amount or price, reverts with "Payment already        *)
(* processed", mints nothing and leaves totalRaised as it was; so a project    *)
(* never holds two claims minted for the same reference.                       *)
C1_DuplicateStep ==
    (IsProcessPaymentStep /\ ClaimsFor(last'.args[1], last'.args[5]) # {})
        => /\ last'.err = "Payment already processed"
           /\ claims' = claims
           /\ project' = project
           /\ processedPayments' = processedPayments

C1_OneClaimPerProjectRef ==
    \A v \in Vaults, t \in TxHashes : Cardinality(ClaimsFor(v, t)) <= 1

C1_IdempotentIntake == [][C1_DuplicateStep /\ C1_OneClaimPerProjectRef']_vars

(* A second processPayment with a used reference, another investor and a valid *)
(* amount, was rejected as a duplicate.                                        *)
C1_Witness ==
    /\ last.op = "processPayment"
    /\ last.err = "Payment already processed"
    /\ last.args[4] > 0
    /\ \E i \in ClaimsFor(last.args[1], last.args[5]) : ClaimData(i).owner # last.args[3]

(* C7: no two claims, of whatever project, carry the same source payment *)
(* reference.                                                            *)
C7_ReferenceConsumedOnce ==
    \A i, j \in ClaimIds :
        ClaimData(i).xrplSourceTx = ClaimData(j).xrplSourceTx => i = j

(* C9 as stated: processPayment with a reference the oracle has not verified *)
(* reverts with "XRPL payment not verified" and changes nothing.             *)
C9_UnverifiedStepOriginal ==
    (IsProcessPaymentStep /\ ~isXRPLPaymentVerified(last'.args[5]))
        => /\ last'.err = "XRPL payment not verified"
           /\ UNCHANGED <<registryVars, oracleVars, vaultVars>>

C9_UnverifiedStep ==
    (IsProcessPaymentStep /\ ~isXRPLPaymentVerified(last'.args[5]))
        => /\ last'.err # ""
           /\ last'.args[4] > 0 => last'.err = "XRPL payment not verified"
           /\ last'.args[4] = 0 => last'.err = "Invalid amount"
           /\ UNCHANGED <<registryVars, oracleVars, vaultVars>>

C9_OnlyVerifiedProcessed ==
    /\ \A v \in Vaults, t \in TxHashes :
            isPaymentProcessed(v, t) => isXRPLPaymentVerified(t)
    /\ \A i \in ClaimIds :
            /\ ClaimData(i).xrplSourceTx \in TxHashes
            /\ isXRPLPaymentVerified(ClaimData(i).xrplSourceTx)

C10_VerifyStep ==
    (last'.op = "verifyXRPLPayment" /\ last'.args[1] = owner.OracleAdapter)
        => LET t == last'.args[2] IN
           IF xrplPaymentProofs[t].verified
           THEN /\ last'.err = "Payment already verified"
                /\ xrplPaymentProofs' = xrplPaymentProofs
           ELSE /\ last'.err = ""
                /\ last'.ret = TRUE
                /\ xrplPaymentProofs' = [xrplPaymentProofs EXCEPT ![t] =
                        [txHash |-> t, sender |-> last'.args[3],
                         recipient |-> last'.args[4], amount |-> last'.args[5],
                         timestamp |-> last'.args[6], blockNumber |-> last'.args[7],
                         verified |-> TRUE]]

C10_VerifyRejectsRepeat == [][C10_VerifyStep]_vars

(* A repeated verifyXRPLPayment carrying another amount was rejected. *)
C10_Witness ==
    /\ last.op = "verifyXRPLPayment"
    /\ last.err = "Payment already verified"
    /\ xrplPaymentProofs[last.args[2]].verified
    /\ xrplPaymentProofs[last.args[2]].amount # last.args[5]

----------------------------------------------------------------------------
(* Registry and staking: claims minted through payment intake of vault 1 or by *)
(* the registry owner, the owner's status operations, the ownership hand-over  *)
(* to the StakeManager, stake, burn and reward transfers.                      *)

StakeHashes == {"tx1", "tx2"}
StakeTokenIds == 0..1
InvestorOf(t) == IF t = "tx2" THEN "bob" ELSE "alice"
OtherUser(u) == IF u = "alice" THEN "bob" ELSE "alice"

StakeVerify ==
    \E t \in StakeHashes : VerifyXRPLPayment(Admin, t, InvestorOf(t), Admin, 25000, now, 7)

StakeProcess ==
    \E t \in StakeHashes : ProcessPayment(1, Admin, InvestorOf(t), 25000, t, 1)

StakeHandOver ==
    \E c \in {"ClaimSBT", "RewardNFT"} : TransferOwnership(c, Admin, StakeMgr)

StakePause == \E tokenId \in StakeTokenIds : Pause(Admin, tokenId)

StakeUnpause == \E tokenId \in StakeTokenIds : Unpause(Admin, tokenId)

StakeClaimTransfer ==
    \E fn \in ClaimTransferFunctions, tokenId \in ClaimIds :
        ClaimTransfer(fn, ClaimOwnerOf(tokenId), ClaimOwnerOf(tokenId),
                      OtherUser(ClaimOwnerOf(tokenId)), tokenId)

StakeStake ==
    \E caller \in Users, claimId \in StakeTokenIds : stakeAndMintReward(caller, claimId)

StakeBurn ==
    \E caller \in Users, rewardId \in StakeTokenIds :
        StakeManager_burnReward(caller, rewardId)

StakeShare ==
    \E caller \in Users, rewardId \in StakeTokenIds :
        RewardTransfer(caller, caller, OtherUser(caller), rewardId)

StakeRewardMint ==
    \E claimTokenId \in StakeTokenIds : MintReward(Admin, "alice", claimTokenId, 1, 2500)

StakeRewardBurn ==
    \E rewardId \in StakeTokenIds : RewardNFT_burnReward(Admin, rewardId)

StakeNotify == onRewardTransferred("alice", 0, "alice", "bob")

NextStake ==
    \/ StakeVerify
    \/ StakeProcess
    \/ StakeHandOver
    \/ StakePause
    \/ StakeUnpause
    \/ StakeClaimTransfer
    \/ StakeStake
    \/ StakeBurn
    \/ StakeShare
    \/ StakeRewardMint
    \/ StakeRewardBurn
    \/ StakeNotify

SpecStake == Init /\ [][NextStake]_vars

----------------------------------------------------------------------------
(* Revenue: the k-th payment processed by vault 1 is the k-th XRPL payment, of *)
(* one of two amounts; the administrator hands the registry and the rewards    *)
(* over to the StakeManager before the first payment; owners stake and burn;   *)
(* the administrator adds revenue, deposits the queued amount into an empty    *)
(* vault and distributes.                                                      *)

RevenueHashes == <<"tx1", "tx2", "tx3">>
RevenueAmounts == <<<<20000, 33330>>, <<30000, 33330>>, <<50000, 33340>>>>
RevenueSources == {0, 10, 1000}
NextPayment == Min(Len(claims) + 1, Len(RevenueHashes))

Scenario == IF claims # <<>> /\ claims[1].basisPoints = 3333 THEN 2 ELSE 1

RevenueVerify ==
    LET t == RevenueHashes[NextPayment]
    IN  /\ ~isXRPLPaymentVerified(t)
        /\ \E amount \in Range(RevenueAmounts[NextPayment]) :
            /\ claims # <<>> => amount = RevenueAmounts[NextPayment][Scenario]
            /\ VerifyXRPLPayment(Admin, t, InvestorOf(t), Admin, amount, now, 7)

RevenueProcess ==
    LET t == RevenueHashes[NextPayment]
    IN  ProcessPayment(1, Admin, InvestorOf(t), xrplPaymentProofs[t].amount, t, 1)

RevenueHandOver ==
    /\ claims = <<>>
    /\ \E c \in {"ClaimSBT", "RewardNFT"} : TransferOwnership(c, Admin, StakeMgr)

RevenueStake ==
    \E claimId \in ClaimIds \cap StakeTokenIds :
        stakeAndMintReward(ClaimOwnerOf(claimId), claimId)

RevenueBurn ==
    \E rewardId \in RewardIds :
        /\ RewardExists(rewardId)
        /\ StakeManager_burnReward(RewardData(rewardId).owner, rewardId)

RevenueShare ==
    \E rewardId \in RewardIds :
        /\ RewardExists(rewardId)
        /\ RewardTransfer(RewardData(rewardId).owner, RewardData(rewardId).owner,
                          OtherUser(RewardData(rewardId).owner), rewardId)

RevenueAdd == \E amount \in RevenueSources : AddRevenue(1, Admin, amount, "box_office")

RevenueFund ==
    /\ vaultBalance[1] = 0
    /\ revenueEntries[1] # <<>>
    /\ FundVault(1, TotalRevenue(1))

RevenueDistribute == DistributeRevenue(1, Admin)

NextRevenue ==
    \/ RevenueVerify
    \/ RevenueProcess
    \/ RevenueHandOver
    \/ RevenueStake
    \/ RevenueBurn
    \/ RevenueShare
    \/ RevenueAdd
    \/ RevenueFund
    \/ RevenueDistribute

SpecRevenue == Init /\ [][NextRevenue]_vars

(* The operations the pairing is stated over: claim mint, stake, burn, reward *)
(* transfer and the registry's pause / unpause (with the ownership hand-over  *)
(* that lets the StakeManager call them).                                     *)
NextPairing ==
    \/ StakeVerify
    \/ StakeProcess
    \/ StakeHandOver
    \/ StakePause
    \/ StakeUnpause
    \/ StakeStake
    \/ StakeBurn
    \/ StakeShare

SpecPairing == Init /\ [][NextPairing]_vars

----------------------------------------------------------------------------
(* Claims about the registry and staking. *)

ActiveRewardsOf(claimId) ==
    {r \in RewardIds : RewardData(r).isActive /\ RewardData(r).claimTokenId = claimId}

(* C2: a claim is Staked if and only if exactly one active reward references it. *)
C2_StakeRewardPairing ==
    \A c \in ClaimIds :
        ClaimData(c).status = "Staked" <=> Cardinality(ActiveRewardsOf(c)) = 1

----------------------------------------------------------------------------
(* Milestones: the oracle's owner authorises verifiers, anyone submits signed  *)
(* attestations for the milestones of project 1, the administrator adds        *)
(* milestones to vault 1 and unlocks them with an attestation key, with its    *)
(* hexadecimal rendering, with the bytes an attestation key is the digest of,  *)
(* or with a string that is none of these.                                     *)

MilestoneIndices == 0..(MaxMilestones - 1)
ProofHashes == {"QmProof"}

AttestationKeys == {a.key : a \in milestoneAttestations}

(* The bytes a stored attestation's key is the digest of. *)
KeyPreimages ==
    {EncodePacked(<<a.projectId, a.milestoneIndex, a.proofHash, a.timestamp>>) :
        a \in milestoneAttestations}

AttestationArguments ==
    AttestationKeys \cup {ToHexString(k) : k \in AttestationKeys} \cup KeyPreimages
        \cup {EncodePacked(<<"QmProof">>)}

MilestoneAuthorize ==
    \E authorized \in BOOLEAN : SetVerifierAuthorization(Admin, "verifier", authorized)

MilestoneAttest ==
    \E milestoneIndex \in MilestoneIndices, proofHash \in ProofHashes,
       signer \in Verifiers, signedAt \in {now, 0} :
        CreateMilestoneAttestation("alice", 1, milestoneIndex, "cut", "rough cut",
            proofHash,
            Sign(signer, MessageHash(1, milestoneIndex, "cut", "rough cut", proofHash,
                                     signedAt)))

MilestoneAdd == \E unlockAmount \in {0, 500} : AddMilestone(1, Admin, "cut", "rough cut",
                                                            unlockAmount)

MilestoneUnlock ==
    \E milestoneIndex \in 0..MaxMilestones, attestationHash \in AttestationArguments :
        UnlockMilestone(1, Admin, milestoneIndex, attestationHash)

NextMilestone ==
    \/ MilestoneAuthorize
    \/ MilestoneAttest
    \/ MilestoneAdd
    \/ MilestoneUnlock
    \/ AdvanceTime

SpecMilestone == Init /\ [][NextMilestone]_vars

----------------------------------------------------------------------------
(* Milestone statuses: the authorised verifier attests each milestone of      *)
(* project 1 once, the owner adds milestones and unlocks them with the bytes   *)
(* a stored key is the digest of, or with a proof hash.                        *)

StatusArguments == KeyPreimages \cup {EncodePacked(<<"QmProof">>)}

StatusAuthorize == SetVerifierAuthorization(Admin, "verifier", TRUE)

StatusAttest ==
    \E milestoneIndex \in MilestoneIndices :
        /\ \A a \in milestoneAttestations : a.milestoneIndex # milestoneIndex
        /\ CreateMilestoneAttestation("alice", 1, milestoneIndex, "cut", "rough cut",
               "QmProof",
               Sign("verifier", MessageHash(1, milestoneIndex, "cut", "rough cut",
                                            "QmProof", now)))

StatusAdd == AddMilestone(1, Admin, "cut", "rough cut", 500)

StatusUnlock ==
    \E milestoneIndex \in MilestoneIndices, attestationHash \in StatusArguments :
        UnlockMilestone(1, Admin, milestoneIndex, attestationHash)

NextMilestoneStatus ==
    \/ StatusAuthorize
    \/ StatusAttest
    \/ StatusAdd
    \/ StatusUnlock
    \/ AdvanceTime

SpecMilestoneStatus == Init /\ [][NextMilestoneStatus]_vars

----------------------------------------------------------------------------
(* Shares: payments of vault 1 of amounts up to twice the funding target, to   *)
(* an investor or to the zero address, and mintOrTopUp called by the owner of  *)
(* the registry while every share is within its range.                         *)

SharesHashes == {"tx1", "tx2"}
SharesAmounts == {25000, 100000, 200000}
SharesInvestors == {"alice", ZeroAddress}
SharesTopUps == {0, 50, 200000}

SharesVerify ==
    \E t \in SharesHashes : VerifyXRPLPayment(Admin, t, "alice", Admin, 25000, now, 7)

SharesProcess ==
    \E investor \in SharesInvestors, amount \in SharesAmounts, t \in SharesHashes :
        ProcessPayment(1, Admin, investor, amount, t, 1)

SharesTopUp ==
    /\ \A i \in ClaimIds : ClaimData(i).basisPoints \in 1..10000
    /\ \E to \in Users, amount \in SharesTopUps : MintOrTopUp(Admin, to, amount)

NextShares ==
    \/ SharesVerify
    \/ SharesProcess
    \/ SharesTopUp

SpecShares == Init /\ [][NextShares]_vars

----------------------------------------------------------------------------
(* Access: every owner-only function of vault 1, of the oracle and of the two  *)
(* registries, called by the administrator and by an investor.                 *)

AccessCallers == {Admin, "alice"}
AccessHashes == <<"tx1", "tx2">>

AccessVerify ==
    \E caller \in AccessCallers :
        VerifyXRPLPayment(caller, AccessHashes[1], "alice", Admin, 25000, now, 7)

AccessBatch ==
    \E caller \in AccessCallers :
        BatchVerifyXRPLPayments(caller, AccessHashes, <<"alice", "alice">>,
                                <<Admin, Admin>>, <<25000, 25000>>, <<now, now>>, <<7, 7>>)

AccessAuthorize ==
    \E caller \in AccessCallers : SetVerifierAuthorization(caller, "verifier", TRUE)

AccessAttest ==
    /\ milestoneAttestations = {}
    /\ CreateMilestoneAttestation("alice", 1, 0, "cut", "rough cut", "QmProof",
           Sign("verifier", MessageHash(1, 0, "cut", "rough cut", "QmProof", now)))

AccessProcess ==
    \E caller \in AccessCallers :
        ProcessPayment(1, caller, "alice", 25000, AccessHashes[1], 1)

AccessAddMilestone ==
    \E caller \in AccessCallers : AddMilestone(1, caller, "cut", "rough cut", 500)

AccessUnlock ==
    \E caller \in AccessCallers, attestationHash \in KeyPreimages :
        UnlockMilestone(1, caller, 0, attestationHash)

AccessAddRevenue ==
    \E caller \in AccessCallers : AddRevenue(1, caller, 10, "box_office")

AccessFund ==
    /\ vaultBalance[1] = 0
    /\ revenueEntries[1] # <<>>
    /\ FundVault(1, TotalRevenue(1))

AccessDistribute == \E caller \in AccessCallers : DistributeRevenue(1, caller)

AccessPause ==
    \E caller \in AccessCallers, tokenId \in ClaimIds : Pause(caller, tokenId)

AccessUnpause ==
    \E caller \in AccessCallers, tokenId \in ClaimIds : Unpause(caller, tokenId)

AccessMintReward ==
    \E caller \in AccessCallers, claimTokenId \in ClaimIds :
        MintReward(caller, "alice", claimTokenId, 1, 2500)

AccessBurnReward ==
    \E caller \in AccessCallers, tokenId \in RewardIds :
        RewardNFT_burnReward(caller, tokenId)

NextAccess ==
    \/ AccessVerify
    \/ AccessBatch
    \/ AccessAuthorize
    \/ AccessAttest
    \/ AccessProcess
    \/ AccessAddMilestone
    \/ AccessUnlock
    \/ AccessAddRevenue
    \/ AccessFund
    \/ AccessDistribute
    \/ AccessPause
    \/ AccessUnpause
    \/ AccessMintReward
    \/ AccessBurnReward

SpecAccess == Init /\ [][NextAccess]_vars

----------------------------------------------------------------------------
(* Isolation: one investor holds several claims of project 1, stakes and burns *)
(* through StakeManager (which owns both registries), and revenue is paid in a *)
(* token that calls the recipients back; the vault may hold more tokens than   *)
(* the revenue queued.                                                         *)

IsolationHashes == <<"tx1", "tx2", "tx3">>
IsolationDeposits == {10, 100}

EngineCalls ==
    {[op |-> "stakeAndMintReward", id |-> c] : c \in ClaimIds} \cup
    {[op |-> "StakeManager.burnReward", id |-> r] : r \in RewardIds}

IsolationVerify ==
    /\ Len(claims) < Len(IsolationHashes)
    /\ ~isXRPLPaymentVerified(IsolationHashes[Len(claims) + 1])
    /\ VerifyXRPLPayment(Admin, IsolationHashes[Len(claims) + 1], "alice", Admin, 25000,
                         now, 7)

IsolationProcess ==
    /\ Len(claims) < Len(IsolationHashes)
    /\ isXRPLPaymentVerified(IsolationHashes[Len(claims) + 1])
    /\ ProcessPayment(1, Admin, "alice", 25000, IsolationHashes[Len(claims) + 1], 1)

IsolationHandOver ==
    \E c \in {"ClaimSBT", "RewardNFT"} :
        /\ owner[c] = Admin
        /\ TransferOwnership(c, Admin, StakeMgr)

IsolationStake ==
    \E claimId \in ClaimIds :
        /\ StakeRevert("alice", claimId) = ""
        /\ stakeAndMintReward("alice", claimId)

IsolationBurn ==
    \E rewardId \in RewardIds :
        /\ BurnRevert("alice", rewardId) = ""
        /\ StakeManager_burnReward("alice", rewardId)

IsolationAdd ==
    /\ revenueEntries[1] = <<>>
    /\ AddRevenue(1, Admin, 10, "box_office")

IsolationFund ==
    /\ vaultBalance[1] = 0
    /\ revenueEntries[1] # <<>>
    /\ \E amount \in IsolationDeposits : FundVault(1, amount)

IsolationDistribute ==
    \E k \in 1..MaxClaims, nested \in EngineCalls :
        DistributeRevenueWithEngineCall(1, Admin, k, nested)

NextIsolation ==
    \/ IsolationVerify
    \/ IsolationProcess
    \/ IsolationHandOver
    \/ IsolationStake
    \/ IsolationBurn
    \/ IsolationAdd
    \/ IsolationFund
    \/ IsolationDistribute

SpecIsolation == Init /\ [][NextIsolation]_vars

----------------------------------------------------------------------------
(* Attestations: the owner authorises and de-authorises two verifiers, who     *)
(* sign attestations of milestone 0 of project 1 under two names; an           *)
(* unauthorised account signs too.                                             *)

AttestationSigners == {"verifier", "auditor"}
AttestationNames == {"cut", "final cut"}

AttestationAuthorize ==
    \E verifier \in AttestationSigners, authorized \in BOOLEAN :
        SetVerifierAuthorization(Admin, verifier, authorized)

AttestationCreate ==
    \E milestoneName \in AttestationNames, signer \in AttestationSigners \cup {"stranger"} :
        CreateMilestoneAttestation("alice", 1, 0, milestoneName, "rough cut", "QmProof",
            Sign(signer, MessageHash(1, 0, milestoneName, "rough cut", "QmProof", now)))

AttestationPayment ==
    VerifyXRPLPayment(Admin, "tx1", "alice", Admin, 25000, now, 7)

NextAttestation ==
    \/ AttestationAuthorize
    \/ AttestationCreate
    \/ AttestationPayment
    \/ AdvanceTime

SpecAttestation == Init /\ [][NextAttestation]_vars

----------------------------------------------------------------------------
(* Batches: the oracle's owner verifies payments one by one and in batches     *)
(* that repeat references and whose arrays may differ in length.               *)

BatchHashes == {<<>>, <<"tx1">>, <<"tx1", "tx2">>, <<"tx1", "tx2", "tx2">>}
BatchAmounts == {<<100>>, <<100, 200>>, <<100, 200, 300>>, <<300, 200, 100>>}

BatchSingle ==
    \E txHash \in {"tx1", "tx2"}, amount \in {100, 999} :
        VerifyXRPLPayment(Admin, txHash, "alice", Admin, amount, now, 7)

BatchCall ==
    \E txHashes \in BatchHashes, amounts \in BatchAmounts :
        BatchVerifyXRPLPayments(Admin, txHashes,
            [i \in DOMAIN txHashes |-> "alice"], [i \in DOMAIN txHashes |-> Admin],
            amounts, [i \in DOMAIN amounts |-> now], [i \in DOMAIN txHashes |-> 7])

NextBatch ==
    \/ BatchSingle
    \/ BatchCall
    \/ AdvanceTime

SpecBatch == Init /\ [][NextBatch]_vars

----------------------------------------------------------------------------
(* Records: two investors hold equal shares of project 1 and the owner         *)
(* distributes revenue entries as small as one token.                          *)

RecordHashes == <<"tx1", "tx2">>
RecordAmounts == {1, 10}

RecordVerify ==
    \E i \in DOMAIN RecordHashes :
        /\ ~isXRPLPaymentVerified(RecordHashes[i])
        /\ VerifyXRPLPayment(Admin, RecordHashes[i], InvestorOf(RecordHashes[i]), Admin,
                             25000, now, 7)

RecordProcess ==
    \E i \in DOMAIN RecordHashes :
        ProcessPayment(1, Admin, InvestorOf(RecordHashes[i]), 25000, RecordHashes[i], 1)

RecordPause == \E tokenId \in ClaimIds : Pause(Admin, tokenId)

RecordAdd == \E amount \in RecordAmounts : AddRevenue(1, Admin, amount, "box_office")

RecordFund ==
    /\ vaultBalance[1] = 0
    /\ revenueEntries[1] # <<>>
    /\ FundVault(1, TotalRevenue(1))

RecordDistribute == DistributeRevenue(1, Admin)

NextRecord ==
    \/ RecordVerify
    \/ RecordProcess
    \/ RecordPause
    \/ RecordAdd
    \/ RecordFund
    \/ RecordDistribute

SpecRecord == Init /\ [][NextRecord]_vars

----------------------------------------------------------------------------
(* Reentrancy: the vault's owner and another account invest, the owner adds    *)
(* and deposits revenue, and distributes it in a token that calls the          *)
(* recipients back.                                                            *)

ReentrancyHashes == <<"tx1", "tx2">>
ReentrancyInvestors == {Admin, "alice"}

ReentrancyVerify ==
    \E i \in DOMAIN ReentrancyHashes :
        VerifyXRPLPayment(Admin, ReentrancyHashes[i], "alice", Admin, 25000, now, 7)

ReentrancyProcess ==
    \E i \in DOMAIN ReentrancyHashes, investor \in ReentrancyInvestors :
        ProcessPayment(1, Admin, investor, 25000, ReentrancyHashes[i], 1)

ReentrancyAdd == \E amount \in {0, 10} : AddRevenue(1, Admin, amount, "box_office")

ReentrancyFund ==
    /\ vaultBalance[1] = 0
    /\ revenueEntries[1] # <<>>
    /\ FundVault(1, TotalRevenue(1))

ReentrancyDistribute ==
    \E nested \in NestedCalls : DistributeRevenueWithCallback(1, Admin, nested)

NextReentrancy ==
    \/ ReentrancyVerify
    \/ ReentrancyProcess
    \/ ReentrancyAdd
    \/ ReentrancyFund
    \/ ReentrancyDistribute

SpecReentrancy == Init /\ [][NextReentrancy]_vars

----------------------------------------------------------------------------
(* Revenue claims, stated over the claims of the registry and the transfers a  *)
(* distribution made.                                                          *)

IsDistributeStep == last'.op = "distributeRevenue" /\ last'.err = ""

ProjectClaimsOf(v) == {c \in ClaimIds : ClaimData(c).projectId = project[v].projectId}

ActiveClaimsOf(v) == {c \in ProjectClaimsOf(v) : ClaimData(c).status = "Active"}

QueuedRevenue(v) ==
    LET q == revenueEntries[v]
        F[i \in 0..Len(q)] == IF i = 0 THEN 0 ELSE F[i - 1] + q[i].amount
    IN  F[Len(q)]

ActiveShareOf(v) ==
    LET F[i \in 0..Len(claims)] ==
            IF i = 0 THEN 0
            ELSE F[i - 1] + (IF (i - 1) \in ActiveClaimsOf(v) THEN claims[i].basisPoints
                             ELSE 0)
    IN  F[Len(claims)]

(* what a list of transfers paid to `to` for claim c *)
PaidFor(transfers, c, to) ==
    LET F[i \in 0..Len(transfers)] ==
            IF i = 0 THEN 0
            ELSE F[i - 1] + (IF transfers[i].tokenId = c /\ transfers[i].to = to
                             THEN transfers[i].amount ELSE 0)
    IN  F[Len(transfers)]

PaidTo(transfers, to) ==
    LET F[i \in 0..Len(transfers)] ==
            IF i = 0 THEN 0
            ELSE F[i - 1] + (IF transfers[i].to = to THEN transfers[i].amount ELSE 0)
    IN  F[Len(transfers)]

PaidTotal(transfers) ==
    LET F[i \in 0..Len(transfers)] ==
            IF i = 0 THEN 0 ELSE F[i - 1] + transfers[i].amount
    IN  F[Len(transfers)]

BasisPointsOfClaims == [i \in DOMAIN claims |-> claims[i].basisPoints]

AmountsOf(transfers) == [i \in DOMAIN transfers |-> transfers[i].amount]

AllActive == \A c \in ClaimIds : ClaimData(c).status = "Active"

C3_Step ==
    IsDistributeStep =>
        LET v == last'.args[1]
            t == last'.ret.transfers
        IN  /\ \A c \in ProjectClaimsOf(v) :
                   PaidFor(t, c, ClaimOwnerOf(c)) =
                       IF c \in ActiveClaimsOf(v)
                       THEN (QueuedRevenue(v) * ClaimData(c).basisPoints)
                                \div ActiveShareOf(v)
                       ELSE 0
            /\ \A i \in DOMAIN t :
                   /\ t[i].tokenId \in ActiveClaimsOf(v)
                   /\ t[i].to = ClaimOwnerOf(t[i].tokenId)
            /\ vaultBalance'[v] = vaultBalance[v] - PaidTotal(t)
            /\ (BasisPointsOfClaims = <<2000, 3000, 5000>> /\ AllActive
                    /\ QueuedRevenue(v) = 1000)
                   => AmountsOf(t) = <<200, 300, 500>>
            /\ (BasisPointsOfClaims = <<3333, 3333, 3334>> /\ AllActive
                    /\ QueuedRevenue(v) = 10)
                   => AmountsOf(t) = <<3, 3, 3>>

(* C3: a successful distribution pays the owner of every Active claim of the   *)
(* project exactly floor(total * share / activeShareTotal), where total is the *)
(* sum of the queued entries and activeShareTotal the sum of the shares of the *)
(* Active claims, and pays nothing for any other claim; shares 2000/3000/5000  *)
(* with total 1000 pay 200/300/500, shares 3333/3333/3334 with total 10 pay    *)
(* 3/3/3.                                                                      *)
C3_ProRataPayouts == [][C3_Step]_vars

C3_Witness ==
    /\ last.op = "distributeRevenue" /\ last.err = ""
    /\ BasisPointsOfClaims = <<3333, 3333, 3334>> /\ AllActive
    /\ last.ret.totalAmount = 10
    /\ AmountsOf(last.ret.transfers) = <<3, 3, 3>>
    /\ vaultBalance[1] = 1

ActiveRewards == {r \in RewardIds : RewardData(r).isActive}

IsRewardTransferStep ==
    /\ last'.op = "transferFrom" /\ last'.args[1] = "RewardNFT" /\ last'.err = ""
    /\ last'.args[5] \in ActiveRewards

(* what the Active claims owned by u earn in a distribution of vault v *)
EarnedBy(v, u) ==
    LET F[i \in 0..Len(claims)] ==
            IF i = 0 THEN 0
            ELSE F[i - 1] + (IF (i - 1) \in ActiveClaimsOf(v) /\ claims[i].owner = u
                             THEN (QueuedRevenue(v) * claims[i].basisPoints)
                                      \div ActiveShareOf(v)
                             ELSE 0)
    IN  F[Len(claims)]

C6_Step ==
    /\ IsRewardTransferStep =>
           LET r == last'.args[5]
               c == RewardData(r).claimTokenId
           IN  /\ rewards'[r + 1].owner = last'.args[4]
               /\ rewards'[r + 1].isActive
               /\ ClaimData(c).status = "Staked"
               /\ claims' = claims
               /\ stakes' = stakes /\ userStakes' = userStakes
               /\ claimToReward' = claimToReward
    /\ IsDistributeStep =>
           LET v == last'.args[1]
               t == last'.ret.transfers
           IN  /\ \A r \in ActiveRewards : \A i \in DOMAIN t :
                      t[i].tokenId # RewardData(r).claimTokenId
               /\ \A u \in Users : PaidTo(t, u) = EarnedBy(v, u)

(* C6: a transfer of an active reward to a new owner leaves the paired claim   *)
(* (status Staked, owner, share) and the stake record as they were, and a      *)
(* distribution pays nothing for a claim an active reward is paired with:      *)
(* every account receives exactly what its own Active claims earn, so neither  *)
(* the claim's owner nor the reward's holder is paid for the staked claim.     *)
C6_SharingKeepsYieldLost == [][C6_Step]_vars

C6_Witness ==
    /\ last.op = "distributeRevenue" /\ last.err = ""
    /\ last.ret.transfers # <<>>
    /\ \E r \in ActiveRewards :
           /\ RewardData(r).owner # ClaimOwnerOf(RewardData(r).claimTokenId)
           /\ ClaimData(RewardData(r).claimTokenId).status = "Staked"
           /\ PaidTo(last.ret.transfers, RewardData(r).owner) > 0
           /\ PaidTo(last.ret.transfers, ClaimOwnerOf(RewardData(r).claimTokenId)) = 0

C8_Step ==
    /\ IsDistributeStep =>
           LET v == last'.args[1]
           IN  /\ revenueEntries'[v] = <<>>
               /\ last'.ret.totalAmount = QueuedRevenue(v)
               /\ PaidTotal(last'.ret.transfers) <= QueuedRevenue(v)
    /\ (last'.op = "distributeRevenue" /\ last'.args[2] = VaultOwner(last'.args[1])
            /\ revenueEntries[last'.args[1]] = <<>>) =>
           /\ last'.err = "No revenue to distribute"
           /\ UNCHANGED <<registryVars, oracleVars, vaultVars>>
    /\ (last'.op = "addRevenue" /\ last'.err = "") =>
           LET v == last'.args[1]
           IN  /\ Len(revenueEntries'[v]) = Len(revenueEntries[v]) + 1
               /\ SubSeq(revenueEntries'[v], 1, Len(revenueEntries[v])) = revenueEntries[v]
               /\ revenueEntries'[v][Len(revenueEntries'[v])].amount = last'.args[3]
    /\ ~(last'.err = "" /\ last'.op \in {"addRevenue", "distributeRevenue"}) =>
           revenueEntries' = revenueEntries

(* C8: a successful distribution leaves the vault's pending queue empty and    *)
(* its total is the sum of the queued entries; a distribution called on an     *)
(* empty queue fails with "No revenue to distribute" and changes nothing; the  *)
(* queue only ever grows by the entry of a successful addRevenue, so the total *)
(* of a distribution is the sum of the entries added since the previous one    *)
(* and a flooring remainder is never carried over.                             *)
C8_DrainOnDistribute == [][C8_Step]_vars

C8_Witness ==
    /\ last.op = "distributeRevenue" /\ last.err = "No revenue to distribute"
    /\ revenueEntries[1] = <<>>
    /\ vaultBalance[1] = 1

----------------------------------------------------------------------------
(* Claims are soulbound. *)

IsClaimTransferStep == last'.op \in ClaimTransferFunctions /\ last'.args[1] = "ClaimSBT"

IsMintStep == last'.op = "processPayment" /\ last'.err = ""

C4_Step ==
    /\ IsClaimTransferStep =>
           /\ last'.err = "SBT: Token is non-transferable"
           /\ UNCHANGED <<registryVars, oracleVars, vaultVars>>
    /\ Len(claims') >= Len(claims)
    /\ \A c \in ClaimIds : claims'[c + 1].owner = claims[c + 1].owner
    /\ IsMintStep =>
           /\ Len(claims') = Len(claims) + 1
           /\ claims'[Len(claims')].owner = last'.args[3]
    /\ ~IsMintStep => Len(claims') = Len(claims)

(* C4: every transferFrom, safeTransferFrom (both overloads), approve and      *)
(* setApprovalForAll on the claim registry fails with "SBT: Token is           *)
(* non-transferable" and changes nothing; a claim is created owned by the      *)
(* investor it is minted to and no step (stake, burn and reward transfer       *)
(* included) ever changes the owner of an existing claim.                      *)
C4_NonTransferable == [][C4_Step]_vars

C4_Witness ==
    /\ last.op = "safeTransferFromData" /\ last.args[1] = "ClaimSBT"
    /\ last.err = "SBT: Token is non-transferable"
    /\ last.args[2] = ClaimOwnerOf(last.args[5])
    /\ ClaimData(last.args[5]).status = "Staked"
    /\ \E r \in ActiveRewards :
           /\ RewardData(r).claimTokenId = last.args[5]
           /\ RewardData(r).owner # ClaimOwnerOf(last.args[5])

----------------------------------------------------------------------------
(* Attestation gating. *)

IsGatedUnlockStep ==
    /\ last'.op = "unlockMilestone"
    /\ last'.args[2] = VaultOwner(last'.args[1])
    /\ last'.args[3] < Len(milestones[last'.args[1]])
    /\ milestones[last'.args[1]][last'.args[3] + 1].status = "Pending"

(* the keys createMilestoneAttestation has returned: those it has stored *)
IsReturnedKey(k) == \E a \in milestoneAttestations : a.key = k /\ a.verified

C5_Step ==
    (IsGatedUnlockStep /\ ~IsReturnedKey(last'.args[4])) =>
        /\ last'.err = "Invalid attestation"
        /\ milestones' = milestones

(* C5: unlockMilestone called by the owner on a Pending milestone with a key   *)
(* that no successful createMilestoneAttestation has returned fails with       *)
(* "Invalid attestation" and leaves the milestone Pending with no timestamp    *)
(* and no key recorded.                                                        *)
C5_AttestationGating == [][C5_Step]_vars

----------------------------------------------------------------------------
(* Staking and burning under their stated preconditions. *)

IsStakeCall == last'.op = "stakeAndMintReward"

IsBurnCall == last'.op = "StakeManager.burnReward"

C11_Step ==
    (/\ IsStakeCall
     /\ ClaimExists(last'.args[2])
     /\ ClaimOwnerOf(last'.args[2]) = last'.args[1]
     /\ ClaimData(last'.args[2]).status = "Active"
     /\ ActiveRewardsOf(last'.args[2]) = {}) =>
        LET c == last'.args[2]
        IN  /\ last'.err = ""
            /\ claims'[c + 1].status = "Staked"
            /\ Len(rewards') = Len(rewards) + 1
            /\ rewards'[Len(rewards')] =
                   [owner |-> last'.args[1], claimTokenId |-> c,
                    projectId |-> ClaimData(c).projectId,
                    basisPoints |-> ClaimData(c).basisPoints,
                    mintTimestamp |-> now, isActive |-> TRUE]

(* C11: stakeAndMintReward called by the owner of an Active claim that no      *)
(* active reward is paired with succeeds, the claim becomes Staked and one new *)
(* active reward exists, owned by the caller, referencing the claim and        *)
(* carrying the claim's basisPoints.                                           *)
C11_StakeSucceeds == [][C11_Step]_vars

C12_Step ==
    (/\ IsBurnCall
     /\ owner["ClaimSBT"] = StakeMgr /\ owner["RewardNFT"] = StakeMgr
     /\ last'.args[2] \in ActiveRewards
     /\ RewardData(last'.args[2]).owner = last'.args[1]) =>
        LET r == last'.args[2]
            c == RewardData(r).claimTokenId
        IN  /\ last'.err = ""
            /\ ~rewards'[r + 1].isActive
            /\ claims'[c + 1].status = "Active"

(* C12: with the registry and the rewards owned by the StakeManager, burnReward *)
(* called by the current owner of an active reward succeeds for every reward   *)
(* id and every claim id (0 included): the reward becomes inactive and the     *)
(* paired claim Active again.                                                  *)
C12_BurnRestoresActive == [][C12_Step]_vars

----------------------------------------------------------------------------
(* Unlocking with the key of a created attestation. *)

C13_Step ==
    (IsGatedUnlockStep /\ verifyMilestoneAttestation(last'.args[4])) =>
        LET v == last'.args[1]
            i == last'.args[3] + 1
        IN  /\ last'.err = ""
            /\ milestones'[v][i].status = "Unlocked"
            /\ milestones'[v][i].unlockTimestamp = now
            /\ milestones'[v][i].attestationHash = last'.args[4]

(* C13: unlockMilestone called by the owner on a Pending milestone with a key k *)
(* returned by createMilestoneAttestation, for which                           *)
(* verifyMilestoneAttestation(k) is true, succeeds, sets the status Unlocked   *)
(* and records the timestamp and k.                                            *)
C13_UnlockWithCreatedKey == [][C13_Step]_vars

----------------------------------------------------------------------------
(* Share arithmetic of payment intake. *)

C14_Step ==
    IsProcessPaymentStep =>
        LET v == last'.args[1]
            amount == last'.args[4]
            ref == last'.args[5]
            quotient == (amount * 10000) \div project[v].totalFunding
            fresh == Keccak256(ref) \notin processedPayments[v]
        IN  /\ last'.err = "" =>
                   /\ Len(claims') = Len(claims) + 1
                   /\ claims'[Len(claims')].basisPoints = quotient
                   /\ claims'[Len(claims')].owner = last'.args[3]
                   /\ claims'[Len(claims')].xrplSourceTx = ref
                   /\ project'[v].totalRaised = project[v].totalRaised + amount
                   /\ fresh /\ Keccak256(ref) \in processedPayments'[v]
                   /\ (project[v].totalFunding = 100000 /\ amount = 25000)
                          => claims'[Len(claims')].basisPoints = 2500
            /\ (fresh /\ amount = 0) =>
                   /\ last'.err = "Invalid amount"
                   /\ UNCHANGED <<registryVars, oracleVars, vaultVars>>
            /\ (fresh /\ amount > 0 /\ isXRPLPaymentVerified(ref) /\ quotient = 0) =>
                   /\ last'.err = "Contribution too small"
                   /\ UNCHANGED <<registryVars, oracleVars, vaultVars>>

----------------------------------------------------------------------------
(* The range of a share, and the atomicity of intake. *)

(* C15: every claim's basisPoints lies in 1..10000. *)
C15_ShareBound == \A i \in ClaimIds : ClaimData(i).basisPoints \in 1..10000

IsFailedProcessPayment == last'.op = "processPayment" /\ last'.err # ""

C20_EveryProcessedHasClaim ==
    \A v \in Vaults, t \in TxHashes :
        Keccak256(t) \in processedPayments[v] => ClaimsFor(v, t) # {}

C20_Step ==
    /\ IsFailedProcessPayment => UNCHANGED <<registryVars, oracleVars, vaultVars>>
    /\ C20_EveryProcessedHasClaim'

(* C20: a processPayment that fails, the failure of the mint inside it         *)
(* included, leaves totalRaised, the investor's contribution total, the        *)
(* processed flag and everything else unchanged, and in every state each       *)
(* reference marked processed on a vault has a claim of that project.          *)
C20_AllOrNothingIntake == [][C20_Step]_vars

C20_Witness ==
    /\ last.op = "processPayment"
    /\ last.err = "ERC721: mint to the zero address"
    /\ isXRPLPaymentVerified(last.args[5])
    /\ ~isPaymentProcessed(last.args[1], last.args[5])
    /\ project[last.args[1]].totalRaised = 0

----------------------------------------------------------------------------
(* Reentrancy of distribution. *)

C16_Step == IsDistributeStep => last'.ret.nested.err # ""

(* C16: every call into distributeRevenue or addRevenue that a payout          *)
(* recipient's callback makes while a distribution runs is rejected.           *)
C16_NestedCallsRejected == [][C16_Step]_vars

----------------------------------------------------------------------------
(* The milestone state machine. *)

MilestoneStatuses == {"Pending", "Unlocked"}

C17_Step ==
    /\ \A v \in Vaults :
           /\ Len(milestones'[v]) >= Len(milestones[v])
           /\ \A i \in DOMAIN milestones[v] :
                  /\ milestones[v][i].status = "Unlocked"
                         => milestones'[v][i] = milestones[v][i]
                  /\ milestones'[v][i].status \in MilestoneStatuses
           /\ \A i \in DOMAIN milestones'[v] \ DOMAIN milestones[v] :
                  /\ milestones'[v][i].status = "Pending"
                  /\ milestones'[v][i].unlockTimestamp = 0
                  /\ milestones'[v][i].attestationHash = EmptyString
    /\ (/\ last'.op = "unlockMilestone"
        /\ last'.args[2] = VaultOwner(last'.args[1])
        /\ last'.args[3] < Len(milestones[last'.args[1]])
        /\ milestones[last'.args[1]][last'.args[3] + 1].status = "Unlocked") =>
           /\ last'.err = "Milestone already unlocked"
           /\ milestones' = milestones

(* C17: a milestone is created Pending with no timestamp and no key; the only  *)
(* change any step makes to a milestone is Pending -> Unlocked; an Unlocked    *)
(* milestone keeps its status, timestamp and key for ever and a further        *)
(* unlockMilestone on it fails with "Milestone already unlocked"; no milestone *)
(* is ever Completed.                                                          *)
C17_MilestoneMonotonic == [][C17_Step]_vars

C17_Witness ==
    /\ last.op = "unlockMilestone" /\ last.err = "Milestone already unlocked"
    /\ milestones[1][last.args[3] + 1].status = "Unlocked"
    /\ verifyMilestoneAttestation(AttestationBytes(last.args[4]))
    /\ milestones[1][last.args[3] + 1].attestationHash # last.args[4]
    /\ milestones[1][last.args[3] + 1].unlockTimestamp < now

----------------------------------------------------------------------------
(* Failures of staking. *)

NotActiveErrors == {"Claim already staked", "Claim not active"}

RewardAlreadyExistsErrors ==
    {"Reward NFT already exists", "Reward already exists for this claim"}

C18_Step ==
    (/\ IsStakeCall
     /\ ClaimExists(last'.args[2])
     /\ owner["ClaimSBT"] = StakeMgr
     /\ owner["RewardNFT"] = StakeMgr) =>
        LET caller == last'.args[1]
            c == last'.args[2]
        IN  /\ ClaimOwnerOf(c) # caller => last'.err = "Not claim owner"
            /\ (ClaimOwnerOf(c) = caller /\ ClaimData(c).status # "Active") =>
                   last'.err \in NotActiveErrors \cup RewardAlreadyExistsErrors
            /\ (ClaimOwnerOf(c) = caller /\ ClaimData(c).status = "Active"
                    /\ ActiveRewardsOf(c) # {}) =>
                   last'.err \in RewardAlreadyExistsErrors
            /\ last'.err # "" => UNCHANGED <<registryVars, oracleVars, vaultVars>>

(* C18: stakeAndMintReward fails with "Not claim owner" when the caller does   *)
(* not own the claim, with a not-active error when the claim is Staked or      *)
(* Slashed and with a reward-exists error when an active reward is paired with *)
(* the claim, and a failed call changes no claim, stake record, stake list or  *)
(* reward.  Stated for the wiring in which StakeManager owns both registries.  *)
C18_StakeFailures == [][C18_Step]_vars

----------------------------------------------------------------------------
(* Failures of revenue distribution. *)

NoRevenueErrors == {"No revenue to distribute", "No revenue available"}

IsFailedDistribute == last'.op = "distributeRevenue" /\ last'.err # ""

C19_Step ==
    /\ (last'.op = "distributeRevenue" /\ last'.args[2] = VaultOwner(last'.args[1])) =>
           LET v == last'.args[1]
           IN  /\ (revenueEntries[v] = <<>> \/ QueuedRevenue(v) = 0) =>
                      last'.err \in NoRevenueErrors
               /\ (QueuedRevenue(v) > 0 /\ ActiveShareOf(v) = 0) =>
                      last'.err = "No active claims"
    /\ (/\ last'.op = "addRevenue"
        /\ last'.args[2] = VaultOwner(last'.args[1])
        /\ last'.args[3] = 0) => last'.err = "Invalid amount"
    /\ (last'.op \in {"distributeRevenue", "addRevenue"} /\ last'.err # "") =>
           UNCHANGED <<registryVars, oracleVars, vaultVars>>

----------------------------------------------------------------------------
(* Owner-only functions. *)

VaultOwnerOps ==
    {"processPayment", "addMilestone", "unlockMilestone", "addRevenue",
     "distributeRevenue"}

OracleOwnerOps ==
    {"verifyXRPLPayment", "batchVerifyXRPLPayments", "setVerifierAuthorization"}

IsStrangerCall ==
    \/ last'.op \in VaultOwnerOps /\ last'.args[2] # VaultOwner(last'.args[1])
    \/ last'.op \in OracleOwnerOps /\ last'.args[1] # owner["OracleAdapter"]
    \/ last'.op \in {"pause", "unpause"} /\ last'.args[1] # owner["ClaimSBT"]
    \/ /\ last'.op \in {"RewardNFT.mintReward", "RewardNFT.burnReward"}
       /\ last'.args[1] # owner["RewardNFT"]

C21_Step ==
    IsStrangerCall =>
        /\ last'.err = "Ownable: caller is not the owner"
        /\ UNCHANGED <<registryVars, oracleVars, vaultVars>>

(* C21: processPayment, addMilestone, unlockMilestone, addRevenue and          *)
(* distributeRevenue of a vault, verifyXRPLPayment, batchVerifyXRPLPayments    *)
(* and setVerifierAuthorization of the oracle, pause/unpause of ClaimSBT and   *)
(* mintReward/burnReward of RewardNFT fail and change no state when the caller *)
(* is not the owner of the contract called.                                    *)
C21_OwnerOnly == [][C21_Step]_vars

(* An investor's distributeRevenue was rejected in a state in which the        *)
(* owner's would have paid out.                                                *)
C21_Witness ==
    /\ last.op = "distributeRevenue"
    /\ last.args[2] # VaultOwner(last.args[1])
    /\ last.err = "Ownable: caller is not the owner"
    /\ DistributeRevenueRevert(last.args[1], VaultOwner(last.args[1])) = ""
    /\ Payouts(last.args[1]) # <<>>

----------------------------------------------------------------------------
(* Distribution while recipients call StakeManager. *)

C22_Step ==
    IsDistributeStep =>
        LET v == last'.args[1]
            t == last'.ret.transfers
        IN  /\ {t[i].tokenId : i \in DOMAIN t} = ActiveClaimsOf(v)
            /\ PaidTotal(t) <= QueuedRevenue(v)

(* C22: the claims one distributeRevenue pays are exactly the claims that were *)
(* Active when the call began, and its payouts sum to at most the revenue it   *)
(* drains, also when a recipient's callback stakes or burns through            *)
(* StakeManager during the distribution.                                       *)
C22_DistributionIsolated == [][C22_Step]_vars

----------------------------------------------------------------------------
(* What an attestation unlocks. *)

IsUnlockStep == last'.op = "unlockMilestone" /\ last'.err = ""

C23_Step ==
    IsUnlockStep =>
        LET v == last'.args[1]
            i == last'.args[3]
            k == AttestationBytes(last'.args[4])
        IN  /\ \E a \in milestoneAttestations :
                   /\ a.key = k
                   /\ a.projectId = project[v].projectId
                   /\ a.milestoneIndex = i
            /\ \A w \in Vaults : \A j \in DOMAIN milestones[w] :
                   milestones[w][j].status = "Unlocked" =>
                       AttestationBytes(milestones[w][j].attestationHash) # k

(* C23: a milestone (project p, index i) becomes Unlocked only through an      *)
(* attestation created for project p and index i, and an attestation that has  *)
(* unlocked one milestone unlocks no other.                                    *)
C23_AttestationBoundToMilestone == [][C23_Step]_vars

----------------------------------------------------------------------------
(* Stored attestations. *)

IsCreateStep == last'.op = "createMilestoneAttestation" /\ last'.err = ""

C24_Step ==
    /\ milestoneAttestations \subseteq milestoneAttestations'
    /\ IsCreateStep =>
           \A a \in milestoneAttestations :
               (/\ a.projectId = last'.args[2]
                /\ a.milestoneIndex = last'.args[3]
                /\ a.proofHash = last'.args[6]
                /\ a.timestamp # now) => a.key # last'.ret

(* C24: no step changes a field stored under the key of an attestation already *)
(* created, a second createMilestoneAttestation with the same project id,      *)
(* milestone index and proof reference at the same time included; and a create *)
(* with the inputs of a stored attestation at another time returns another key.*)
C24_AttestationsImmutable == [][C24_Step]_vars

----------------------------------------------------------------------------
(* Who creates attestations. *)

IsCreateCall == last'.op = "createMilestoneAttestation"

(* the signer of a create call, recovered as the call recovers it *)
SignerOfCreate(args) ==
    Recover(MessageHash(args[2], args[3], args[4], args[5], args[6], now), args[7])

PossibleKeys == {AttestationHash(1, 0, "QmProof", t) : t \in 0..MaxTime}

C25_Step ==
    /\ (IsCreateCall /\ SignerOfCreate(last'.args) \notin authorizedVerifiers) =>
           /\ last'.err = "Unauthorized verifier"
           /\ UNCHANGED <<registryVars, oracleVars, vaultVars>>
    /\ IsCreateStep =>
           \E a \in milestoneAttestations' :
               /\ a.key = last'.ret
               /\ a.verifier = SignerOfCreate(last'.args)
               /\ a.verifier \in authorizedVerifiers
    /\ \A k \in PossibleKeys :
           /\ verifyMilestoneAttestation(k)' <=>
                  \E a \in milestoneAttestations' :
                      a.key = k /\ a.verified /\ a.verifier # ZeroAddress
           /\ (verifyMilestoneAttestation(k)' /\ ~verifyMilestoneAttestation(k)) =>
                  IsCreateStep /\ last'.ret = k

(* C25: createMilestoneAttestation fails with "Unauthorized verifier" and      *)
(* stores nothing when the recovered signer is not authorised at the time of   *)
(* the call; verifyMilestoneAttestation(k) is true exactly when a verified     *)
(* attestation with a non-null verifier is stored under k, and k becomes       *)
(* verified only by being returned by a successful create.                     *)
C25_AuthorizedVerifiersOnly == [][C25_Step]_vars

(* A verifier whose attestation is stored was de-authorised, and its next      *)
(* attestation, for a key not yet stored, was rejected.                        *)
C25_Witness ==
    /\ last.op = "createMilestoneAttestation"
    /\ last.err = "Unauthorized verifier"
    /\ last.args[7].signer \in AttestationSigners
    /\ \E a \in milestoneAttestations : a.verifier = last.args[7].signer
    /\ ~verifyMilestoneAttestation(AttestationHash(last.args[2], last.args[3],
                                                   last.args[6], now))

----------------------------------------------------------------------------
(* Batch verification of payments. *)

IsBatchCall ==
    /\ last'.op = "batchVerifyXRPLPayments"
    /\ last'.args[1] = owner["OracleAdapter"]

SameLengths(args) == \A i \in 3..7 : Len(args[i]) = Len(args[2])

(* the first entry of a batch that names a reference *)
FirstEntry(args, txHash) ==
    LET i == CHOOSE i \in DOMAIN args[2] :
                 /\ args[2][i] = txHash
                 /\ \A j \in 1..(i - 1) : args[2][j] # txHash
    IN  [txHash |-> txHash, sender |-> args[3][i], recipient |-> args[4][i],
         amount |-> args[5][i], timestamp |-> args[6][i], blockNumber |-> args[7][i],
         verified |-> TRUE]

C26_Step ==
    /\ \A t \in TxHashes :
           xrplPaymentProofs[t].verified => xrplPaymentProofs'[t] = xrplPaymentProofs[t]
    /\ (IsBatchCall /\ ~SameLengths(last'.args)) =>
           /\ last'.err = "Array length mismatch"
           /\ UNCHANGED <<registryVars, oracleVars, vaultVars>>
    /\ (IsBatchCall /\ SameLengths(last'.args)) =>
           /\ last'.err = ""
           /\ \A t \in TxHashes :
                  xrplPaymentProofs'[t] =
                      IF ~xrplPaymentProofs[t].verified /\ t \in Range(last'.args[2])
                      THEN FirstEntry(last'.args, t)
                      ELSE xrplPaymentProofs[t]

(* C26: batchVerifyXRPLPayments stores a proof for each entry whose reference  *)
(* is not yet verified and skips, without failing, each entry whose reference  *)
(* was verified by an earlier call or by an earlier entry of the batch; a      *)
(* verified reference keeps the first proof recorded; a batch whose arrays     *)
(* differ in length fails and stores nothing.                                  *)
C26_BatchSkips == [][C26_Step]_vars

(* A batch went through whose first entry names a reference verified earlier   *)
(* with another amount and whose second and third entries name one reference   *)
(* with two amounts: the earlier proof and the second entry are the ones kept. *)
C26_Witness ==
    /\ last.op = "batchVerifyXRPLPayments"
    /\ last.err = ""
    /\ Len(last.args[2]) = 3
    /\ last.args[2][2] = last.args[2][3]
    /\ last.args[5][2] # last.args[5][3]
    /\ xrplPaymentProofs[last.args[2][1]].amount # last.args[5][1]
    /\ xrplPaymentProofs[last.args[2][2]].amount = last.args[5][2]
    /\ last.ret = {2}

----------------------------------------------------------------------------
(* Failures of burning. *)

C27_Step ==
    /\ IsBurnCall =>
           LET caller == last'.args[1]
               r == last'.args[2]
           IN  /\ ~RewardExists(r) => last'.err = "ERC721: invalid token ID"
               /\ (RewardExists(r) /\ RewardData(r).owner # caller) =>
                      last'.err = "Not reward NFT owner"
               /\ last'.err # "" => UNCHANGED <<registryVars, oracleVars, vaultVars>>
               /\ last'.err = "" =>
                      /\ RewardIsActive(r)
                      /\ ~rewards'[r + 1].isActive
    /\ \A r \in RewardIds : ~RewardIsActive(r) => ~rewards'[r + 1].isActive

(* C27: StakeManager.burnReward fails with "Not reward NFT owner" when the     *)
(* caller is not the reward's current owner and with the token-not-found error *)
(* when the reward was never minted or was burned; a failed burn changes no    *)
(* reward, claim or stake record; a burned reward is never active again, so a  *)
(* reward is burned at most once.                                              *)
C27_BurnFailures == [][C27_Step]_vars

(* The staker of a claim gave the reward away and its burn was rejected. *)
C27_Witness ==
    /\ last.op = "StakeManager.burnReward"
    /\ last.err = "Not reward NFT owner"
    /\ RewardExists(last.args[2])
    /\ stakes[claimOf(last.args[2])].isStaked
    /\ stakes[claimOf(last.args[2])].staker = last.args[1]
    /\ claimOf(last.args[2]) # 0
    /\ BurnRevert(RewardData(last.args[2]).owner, last.args[2]) = ""

----------------------------------------------------------------------------
(* The record of a distribution. *)

C28_Step ==
    IsDistributeStep =>
        LET v == last'.args[1]
        IN  /\ last'.ret.totalAmount = QueuedRevenue(v)
            /\ last'.ret.activeClaims = Len(last'.ret.transfers)

(* C28: the record of a successful distributeRevenue carries the sum of the    *)
(* drained entries as its total amount and the number of claims that were      *)
(* paid as its claim count, a claim whose floored share is 0 not being         *)
(* counted.                                                                    *)
C28_DistributionRecord == [][C28_Step]_vars

----------------------------------------------------------------------------
(* Transitions of a claim's status. *)

IsStatusCall(op) == last'.op = op /\ last'.args[1] = owner["ClaimSBT"]

AllowedTransitions ==
    {<<"Active", "Staked">>, <<"Staked", "Active">>, <<"Active", "Slashed">>}

C29_Step ==
    /\ \A c \in ClaimIds :
           \/ claims'[c + 1].status = claims[c + 1].status
           \/ <<claims[c + 1].status, claims'[c + 1].status>> \in AllowedTransitions
    /\ \A op \in {"pause", "unpause"} :
           (IsStatusCall(op) /\ ~ClaimExists(last'.args[2])) =>
               last'.err = "Token does not exist"
    /\ (/\ IsStatusCall("pause")
        /\ ClaimExists(last'.args[2])
        /\ ClaimData(last'.args[2]).status # "Active") =>
           last'.err # "" /\ claims' = claims
    /\ (/\ IsStatusCall("unpause")
        /\ ClaimExists(last'.args[2])
        /\ ClaimData(last'.args[2]).status # "Staked") =>
           last'.err # "" /\ claims' = claims

(* C29: a claim's status changes only Active -> Staked, Staked -> Active or    *)
(* Active -> Slashed; pause of a claim that is not Active and unpause of a     *)
(* claim that is not Staked fail, pause and unpause of a claim that does not   *)
(* exist fail with "Token does not exist", and a Slashed claim keeps its       *)
(* status.                                                                     *)
C29_StatusTransitions == [][C29_Step]_vars

----------------------------------------------------------------------------
(* The reward lookup of RewardNFT. *)

(* C30: for every claim id c, hasActiveReward(c) is true exactly when some     *)
(* active reward is paired with c, getRewardForClaim(c) is then that reward,   *)
(* and no claim has two active rewards.                                        *)
C30_RewardLookup ==
    \A c \in 0..MaxClaims :
        /\ hasActiveReward(c) <=> ActiveRewardsOf(c) # {}
        /\ ActiveRewardsOf(c) # {} => ActiveRewardsOf(c) = {getRewardForClaim(c)}

----------------------------------------------------------------------------
(* Stability of what the oracle has verified. *)

C31_Step ==
    /\ \A t \in TxHashes : isXRPLPaymentVerified(t) => isXRPLPaymentVerified(t)'
    /\ \A k \in PossibleKeys :
           verifyMilestoneAttestation(k) => verifyMilestoneAttestation(k)'

(* C31: a payment reference that is verified stays verified, and a key for     *)
(* which verifyMilestoneAttestation is true stays so, also after the verifier  *)
(* that signed the attestation is removed from the authorised set.             *)
C31_VerificationStable == [][C31_Step]_vars

(* The signer of a stored attestation has just been de-authorised; the         *)
(* attestation and an earlier payment proof are still verified.                *)
C31_Witness ==
    /\ last.op = "setVerifierAuthorization"
    /\ last.err = ""
    /\ last.args[3] = FALSE
    /\ last.args[2] \notin authorizedVerifiers
    /\ \E a \in milestoneAttestations :
           a.verifier = last.args[2] /\ verifyMilestoneAttestation(a.key)
    /\ isXRPLPaymentVerified("tx1")

----------------------------------------------------------------------------
(* Raised amount: payments of two investors into the two vaults, some too      *)
(* small or not verified, next to staking and burning of the second claim, a   *)
(* milestone of vault 1 and, once it is unlocked, revenue.                     *)

RaisedHashes == {"tx1", "tx2"}
RaisedAmounts == {5, 25000}

RaisedVerify ==
    \E t \in RaisedHashes :
        /\ ~isXRPLPaymentVerified(t)
        /\ VerifyXRPLPayment(Admin, t, InvestorOf(t), Admin, 25000, now, 7)

RaisedProcess ==
    \E v \in Vaults, t \in RaisedHashes, amount \in RaisedAmounts :
        /\ v = 2 => t = "tx2"
        /\ ProcessPayment(v, Admin, InvestorOf(t), amount, t, 1)

RaisedHandOver ==
    \E c \in {"ClaimSBT", "RewardNFT"} :
        /\ owner[c] = Admin
        /\ TransferOwnership(c, Admin, StakeMgr)

RaisedStake ==
    \E claimId \in ClaimIds \cap {1} : stakeAndMintReward(ClaimOwnerOf(claimId), claimId)

RaisedBurn ==
    \E rewardId \in RewardIds :
        /\ BurnRevert(ClaimOwnerOf(claimOf(rewardId)), rewardId) = ""
        /\ StakeManager_burnReward(ClaimOwnerOf(claimOf(rewardId)), rewardId)

RaisedAdd ==
    /\ milestones[1] # <<>>
    /\ milestones[1][1].status = "Unlocked"
    /\ revenueEntries[1] = <<>>
    /\ AddRevenue(1, Admin, 10, "box_office")

RaisedFund ==
    /\ vaultBalance[1] = 0
    /\ revenueEntries[1] # <<>>
    /\ FundVault(1, TotalRevenue(1))

RaisedDistribute == DistributeRevenue(1, Admin)

RaisedAuthorize ==
    /\ claims # <<>>
    /\ "verifier" \notin authorizedVerifiers
    /\ SetVerifierAuthorization(Admin, "verifier", TRUE)

RaisedAttest ==
    /\ milestoneAttestations = {}
    /\ CreateMilestoneAttestation("alice", 1, 0, "cut", "rough cut", "QmProof",
           Sign("verifier", MessageHash(1, 0, "cut", "rough cut", "QmProof", now)))

RaisedAddMilestone ==
    /\ milestones[1] = <<>>
    /\ AddMilestone(1, Admin, "cut", "rough cut", 500)

RaisedUnlock ==
    \E attestationHash \in KeyPreimages \cup {EncodePacked(<<"QmProof">>)} :
        UnlockMilestone(1, Admin, 0, attestationHash)

NextRaised ==
    \/ RaisedVerify
    \/ RaisedProcess
    \/ RaisedHandOver
    \/ RaisedStake
    \/ RaisedBurn
    \/ RaisedAdd
    \/ RaisedFund
    \/ RaisedDistribute
    \/ RaisedAuthorize
    \/ RaisedAttest
    \/ RaisedAddMilestone
    \/ RaisedUnlock

SpecRaised == Init /\ [][NextRaised]_vars

----------------------------------------------------------------------------
(* Conservation of the raised amount. *)

IsProcessedBy(v) ==
    last'.op = "processPayment" /\ last'.err = "" /\ last'.args[1] = v

C32_Step ==
    \A v \in Vaults :
        IF IsProcessedBy(v)
        THEN /\ last'.args[4] > 0
             /\ project'[v].totalRaised = project[v].totalRaised + last'.args[4]
             /\ userContributions'[v] =
                    [userContributions[v] EXCEPT ![last'.args[3]] = @ + last'.args[4]]
        ELSE /\ project'[v].totalRaised = project[v].totalRaised
             /\ userContributions'[v] = userContributions[v]

ContributionsOf(v) ==
    userContributions[v]["alice"] + userContributions[v]["bob"]
        + userContributions[v][Admin]

C32_Sum == \A v \in Vaults : project[v].totalRaised = ContributionsOf(v)

(* C32: the raised amount of a project grows by exactly the amount of each     *)
(* successfully processed payment, as does the contribution of its investor;   *)
(* every other step (a failed processPayment, stake, burn, distribute,         *)
(* addRevenue, unlockMilestone) leaves both unchanged, so the raised amount    *)
(* never decreases and equals the sum of the investors' contributions.         *)
C32_RaisedConservation == [][C32_Step /\ C32_Sum']_vars

(* Both investors have paid into vault 1, a payment has failed since, a stake  *)
(* is active and the milestone is unlocked.                                    *)
C32_Witness ==
    /\ userContributions[1]["alice"] = 25000
    /\ userContributions[1]["bob"] = 25000
    /\ project[1].totalRaised = 50000
    /\ \E r \in RewardIds : RewardIsActive(r)
    /\ milestones[1] # <<>>
    /\ milestones[1][1].status = "Unlocked"
    /\ last.op = "processPayment"
    /\ last.err # ""

----------------------------------------------------------------------------
(* Splitting: the administrator and an investor split amounts of the asset     *)
(* among lists of up to two holders, active or not, under two project ids; at  *)
(* most MaxEntries distributions are recorded.                                 *)

SplitCallers == {Admin, "alice"}
SplitAmounts == {0, 50}

Holder(holder, basisPoints, isActive) ==
    [holder |-> holder, basisPoints |-> basisPoints, isActive |-> isActive]

HolderLists ==
    {<<>>,
     <<Holder("alice", 6000, FALSE)>>,
     <<Holder("alice", 6000, TRUE), Holder("bob", 3333, TRUE)>>,
     <<Holder("alice", 6000, TRUE), Holder("bob", 3333, FALSE)>>,
     <<Holder("alice", 0, TRUE), Holder("bob", 3333, TRUE)>>,
     <<Holder("bob", 3333, TRUE), Holder("bob", 3333, TRUE)>>,
     <<Holder("bob", 6000, TRUE), Holder("alice", 6000, TRUE)>>}

Recorded == Len(projectDistributions[0]) + Len(projectDistributions[1])

SplitterSplit ==
    \E caller \in SplitCallers, amount \in SplitAmounts, activeHolders \in HolderLists :
        /\ Recorded < MaxEntries
        /\ split(caller, amount, activeHolders)

SplitterSplitForProject ==
    \E amount \in SplitAmounts, activeHolders \in HolderLists :
        /\ Recorded < MaxEntries
        /\ splitForProject(Admin, 1, amount, activeHolders)

NextSplitter ==
    \/ SplitterSplit
    \/ SplitterSplitForProject

SpecSplitter == Init /\ [][NextSplitter]_vars

----------------------------------------------------------------------------
(* Conservation in RevenueSplitter. *)

IsSplitStep == last'.op \in {"split", "splitForProject"}

SplitProjectOf(call) == IF call.op = "split" THEN 0 ELSE call.args[2]
SplitAmountOf(call) == IF call.op = "split" THEN call.args[2] ELSE call.args[3]
SplitHoldersOf(call) == IF call.op = "split" THEN call.args[3] ELSE call.args[4]

(* The holders of a list that are active with a positive share. *)
ActiveEntries(hs) == {i \in 1..Len(hs) : hs[i].isActive /\ hs[i].basisPoints > 0}

RECURSIVE SumBasisPoints(_, _)
SumBasisPoints(hs, I) ==
    IF I = {} THEN 0
    ELSE LET i == CHOOSE x \in I : TRUE
         IN  hs[i].basisPoints + SumBasisPoints(hs, I \ {i})

(* floor(amount * basisPoints / totalBasisPoints), summed over the active      *)
(* entries of one account.                                                     *)
RECURSIVE ExpectedPaid(_, _, _, _)
ExpectedPaid(amount, hs, I, total) ==
    IF I = {} THEN 0
    ELSE LET i == CHOOSE x \in I : TRUE
         IN  (amount * hs[i].basisPoints) \div total
                 + ExpectedPaid(amount, hs, I \ {i}, total)

ExpectedFor(call, a) ==
    LET hs == SplitHoldersOf(call)
    IN  ExpectedPaid(SplitAmountOf(call), hs, {i \in ActiveEntries(hs) : hs[i].holder = a},
                     SumBasisPoints(hs, ActiveEntries(hs)))

ExpectedTotal(call) ==
    LET hs == SplitHoldersOf(call)
    IN  ExpectedPaid(SplitAmountOf(call), hs, ActiveEntries(hs),
                     SumBasisPoints(hs, ActiveEntries(hs)))

MustFail(call) ==
    \/ SplitAmountOf(call) = 0
    \/ ActiveEntries(SplitHoldersOf(call)) = {}
    \/ SumBasisPoints(SplitHoldersOf(call), ActiveEntries(SplitHoldersOf(call))) > 10000

C33_Step ==
    IsSplitStep =>
        /\ MustFail(last') => last'.err # ""
        /\ last'.err # "" => UNCHANGED splitterVars
        /\ last'.err = "" =>
            LET caller == last'.args[1]
                amount == SplitAmountOf(last')
                p == SplitProjectOf(last')
            IN  /\ ExpectedTotal(last') <= amount
                /\ assetBalance'[Splitter] =
                       assetBalance[Splitter] + amount - ExpectedTotal(last')
                /\ \A a \in Accounts \ {Splitter} :
                       assetBalance'[a] = assetBalance[a] + ExpectedFor(last', a)
                                              - (IF a = caller THEN amount ELSE 0)
                /\ \A a \in Accounts :
                       userDistributions'[p][a] =
                           userDistributions[p][a] + ExpectedFor(last', a)
                /\ \A q \in SplitProjects \ {p} :
                       userDistributions'[q] = userDistributions[q]

(* C33: a successful split or splitForProject takes exactly amount from the    *)
(* caller, pays each active holder with a positive share                       *)
(* floor(amount * basisPoints / totalBasisPoints) and inactive holders         *)
(* nothing, leaves the unpaid remainder in the splitter and adds to            *)
(* userDistributions what each holder was paid; a call with amount 0, with no  *)
(* active holder or with more than 10000 active basis points fails, and a      *)
(* failed call moves nothing.                                                  *)
C33_SplitConservation == [][C33_Step]_vars

(* A split among an active and an inactive holder that left a remainder in     *)
(* the splitter.                                                               *)
C33_Witness ==
    /\ last.op \in {"split", "splitForProject"}
    /\ last.err = ""
    /\ \E i \in 1..Len(SplitHoldersOf(last)) :
           ~SplitHoldersOf(last)[i].isActive /\ SplitHoldersOf(last)[i].basisPoints > 0
    /\ Len(last.ret) = 1
    /\ assetBalance[Splitter] > 0

----------------------------------------------------------------------------
(* Relaying: the relayer starts and stops monitoring the two project addresses *)
(* while the XRPL server delivers, and delivers again, the payments to them;   *)
(* at most MaxEntries listeners per address and handlers in flight.            *)

RelayerStart ==
    \E xrplAddress \in XRPLAddresses :
        /\ isMonitoring \/ \A a \in XRPLAddresses : listeners[a] < MaxEntries
        /\ startMonitoring(xrplAddress)

RelayerStop == isMonitoring /\ stopMonitoring

Redeliver(tx) ==
    /\ Len(handlers) + Started(tx) <= MaxEntries
    /\ DeliverPayment(tx)

RelayerDeliver == \E tx \in XRPLPayments : Redeliver(tx)

RelayerCheck == \E i \in 1..Len(handlers) : HandlerCheck(i)

RelayerVerify == \E i \in 1..Len(handlers) : HandlerVerify(i)

RelayerProcess == \E i \in 1..Len(handlers) : HandlerProcess(i)

RelayerRejected == \E i \in 1..Len(handlers) : HandlerProcessRejected(i)

NextRelayer ==
    \/ RelayerStart
    \/ RelayerStop
    \/ RelayerDeliver
    \/ RelayerCheck
    \/ RelayerVerify
    \/ RelayerProcess
    \/ RelayerRejected

SpecRelayer == Init /\ [][NextRelayer]_vars

(* The server keeps delivering every payment, and every awaited call of every *)
(* handler returns.                                                            *)
SpecRelayerFair ==
    /\ SpecRelayer
    /\ \A tx \in XRPLPayments : WF_vars(Redeliver(tx))
    /\ \A i \in 1..MaxEntries :
           WF_vars(HandlerCheck(i)) /\ WF_vars(HandlerVerify(i)) /\ WF_vars(HandlerProcess(i))

----------------------------------------------------------------------------
(* Delivery by the relayer. *)

VaultOfPayment(tx) == VaultOf(Destination(tx))

(* The proof of the payment is recorded, the vault has not processed it, and   *)
(* the payment's address has a listener.                                       *)
Stranded(tx) ==
    /\ isXRPLPaymentVerified(tx)
    /\ ~isPaymentProcessed(VaultOfPayment(tx), tx)
    /\ Started(tx) >= 1

(* C34: a payment whose proof was recorded by a first handling, but whose      *)
(* processPayment failed, is eventually processed when it is delivered again   *)
(* (and no payment ever has more than one claim).                              *)
C34_RedeliveryCompletes ==
    \A tx \in XRPLPayments :
        /\ Stranded(tx) ~> isPaymentProcessed(VaultOfPayment(tx), tx)
        /\ [](Cardinality(ClaimsFor(VaultOfPayment(tx), tx)) <= 1)

(* C35: while monitoring is on, a payment to a registered address starts       *)
(* exactly one handler, for every registered address and also after            *)
(* monitoring was stopped and started again.                                   *)
C35_EveryAddressHandledOnce ==
    [][(/\ last'.op = "transaction"
        /\ isMonitoring
        /\ last'.args[2] \in monitoredAddresses) => last'.ret = 1]_vars

----------------------------------------------------------------------------
(* Sessions: alice creates and revokes a session key (the administrator's      *)
(* address, the only one that can pass onlyOwner) with two expiry times; the   *)
(* administrator revokes all her keys; the administrator and another relayer   *)
(* execute transactions for her, empty calls to bob's account, which succeed;  *)
(* at most MaxEntries + 1 entries and MaxEntries nonces.                       *)

SessionExpiries == {MaxTime, MaxTime + 1}
SessionSigners == {Admin, "alice"}

SessionCreate ==
    \E sessionKey \in SessionKeys, validUntil \in SessionExpiries, signer \in SessionSigners :
        /\ Len(userSessionKeys["alice"]) <= MaxEntries
        /\ createSessionKey("alice", sessionKey, validUntil, 1, 5,
               Sign(signer, SessionKeyHash("alice", sessionKey, validUntil, 1, 5)))

SessionRevoke == \E sessionKey \in SessionKeys : revokeSessionKey("alice", sessionKey)

SessionEmergency ==
    \E caller \in {Admin, "alice"} : emergencyRevokeAllSessionKeys(caller, "alice")

SessionExecute ==
    \E caller \in Relayers, nonce \in 0..MaxEntries, gasLimit \in {5, 6} :
        /\ userNonces["alice"] < MaxEntries
        /\ executeTransaction(caller, "alice", "bob", 0, <<>>, gasLimit, nonce,
               Sign(caller, TransactionHash("alice", "bob", 0, <<>>, gasLimit, nonce)),
               TRUE)

NextSessions ==
    \/ SessionCreate
    \/ SessionRevoke
    \/ SessionEmergency
    \/ SessionExecute
    \/ AdvanceTime

SpecSessions == Init /\ [][NextSessions]_vars

----------------------------------------------------------------------------
(* Session keys. *)

ActiveEntriesOf(u, k) ==
    {i \in 1..Len(userSessionKeys[u]) :
        userSessionKeys[u][i].sessionKey = k /\ userSessionKeys[u][i].isActive}

(* C36: isSessionKeyActive[u][k] is true exactly when userSessionKeys[u] has   *)
(* an active entry for k, and no key has more than one active entry.           *)
C36_SessionKeysConsistent ==
    \A u \in Users, k \in SessionKeys :
        /\ <<u, k>> \in isSessionKeyActive <=> ActiveEntriesOf(u, k) # {}
        /\ Cardinality(ActiveEntriesOf(u, k)) <= 1

IsExecuted == last'.op = "executeTransaction" /\ last'.err = ""

(* The entry written by the latest createSessionKey of the key. *)
LatestEntry(u, k) ==
    LET I == {i \in 1..Len(userSessionKeys[u]) : userSessionKeys[u][i].sessionKey = k}
    IN  userSessionKeys[u][CHOOSE i \in I : \A j \in I : j <= i]

(* C37: executeTransaction succeeds only with nonce = userNonces[user] and a   *)
(* session key that is active and unexpired for the user; a success adds 1 to  *)
(* the user's nonce and marks the nonce executed, which it was not before; no  *)
(* other step changes a nonce or the executed marks.                           *)
C37_Step ==
    IF IsExecuted
    THEN LET user == last'.args[2]
             key == last'.args[1]
             nonce == last'.args[7]
         IN  /\ nonce = userNonces[user]
             /\ <<user, key>> \in isSessionKeyActive
             /\ LatestEntry(user, key).isActive
             /\ LatestEntry(user, key).validUntil > now
             /\ <<user, nonce>> \notin userTransactions
             /\ userTransactions' = userTransactions \cup {<<user, nonce>>}
             /\ userNonces' = [userNonces EXCEPT ![user] = @ + 1]
    ELSE UNCHANGED <<userNonces, userTransactions>>

C37_ReplayProtected == [][C37_Step]_vars

----------------------------------------------------------------------------
(* Minting FXRP: the administrator and an investor create mint requests for    *)
(* two XRPL transactions, for a registered user or for the zero address (what  *)
(* xrplToFlareAddress gives for an unregistered sender), and process them one  *)
(* by one and in batches; at most MaxEntries + 1 pending entries.              *)

MintCallers == {Admin, "alice"}
MintHashes == {"tx1", "tx2"}
MintUsers == {ZeroAddress, "alice"}
MintAmounts == {0, 5}
MintBatches == {<<"tx1">>, <<"tx1", "tx2">>, <<"tx2", "tx2">>, <<"tx2", "tx3">>}

MintCreate ==
    \E caller \in MintCallers, xrplTxHash \in MintHashes, user \in MintUsers,
       amount \in MintAmounts :
        /\ Len(pendingMintRequests) <= MaxEntries
        /\ createMintRequest(caller, xrplTxHash, user, amount)

MintProcess ==
    \E caller \in MintCallers, xrplTxHash \in MintHashes :
        processMintRequest(caller, xrplTxHash)

MintBatch ==
    \E caller \in MintCallers, xrplTxHashes \in MintBatches :
        batchProcessMintRequests(caller, xrplTxHashes)

NextMint ==
    \/ MintCreate
    \/ MintProcess
    \/ MintBatch

SpecMint == Init /\ [][NextMint]_vars

----------------------------------------------------------------------------
(* Mint requests. *)

PendingHashes == {pendingMintRequests[i] : i \in 1..Len(pendingMintRequests)}

(* C38: the pending list holds exactly the hashes of the requests created and  *)
(* not yet processed, each once.                                               *)
C38_PendingConsistent ==
    /\ \A h \in TxHashes :
           h \in PendingHashes <=> (mintRequests[h] # NoRequest /\ ~mintRequests[h].processed)
    /\ Cardinality(PendingHashes) = Len(pendingMintRequests)

----------------------------------------------------------------------------
(* Badges: the administrator and an investor mint badges for two reward ids    *)
(* and burn them; at most MaxEntries + 1 badges.                               *)

BadgeCallers == {Admin, "alice"}
BadgeRewards == 0..1

BadgeMint ==
    \E caller \in BadgeCallers, rewardTokenId \in BadgeRewards :
        /\ Len(badges) <= MaxEntries
        /\ mintBadge(caller, "alice", rewardTokenId, 1, 2500)

BadgeBurn ==
    \E caller \in BadgeCallers \cup {"bob"}, badgeId \in 0..MaxEntries :
        burnBadge(caller, badgeId)

NextBadge ==
    \/ BadgeMint
    \/ BadgeBurn
    \/ AdvanceTime

SpecBadge == Init /\ [][NextBadge]_vars

ActiveBadgesOf(rewardTokenId) ==
    {b \in BadgeIds : /\ BadgeExists(b)
                      /\ badges[b + 1].isActive
                      /\ badges[b + 1].rewardTokenId = rewardTokenId}

(* C39: no reward token id has more than one active badge.                     *)
C39_OneBadgePerReward ==
    \A r \in 0..MaxRewards : Cardinality(ActiveBadgesOf(r)) <= 1

====
